---- MODULE Spec2Model ----
(***************************************************************************)
(* Workspace lifecycle (create / extend / expire / rename) and the         *)
(* maintenance sweep of KatherLab/workspaces, modelled from src/src/*.rs.  *)
(*                                                                         *)
(* The SQLite store is the pair <<workspaces, notifications>>.  Every CLI  *)
(* invocation is a process p with a program counter; a transaction that    *)
(* the code opens and commits without an external call in between is one   *)
(* atomic step, every external call (zfs, mail) is made in a step of its   *)
(* own after (or, for rename and the sweep, inside) the transaction.       *)
(* Instants and durations are integers counting half seconds; the clock     *)
(* of the model advances a day at a time.                                  *)
(***************************************************************************)
EXTENDS Integers, Sequences, FiniteSets, TLC

\* ---------------------------------------------------------------- bounds
MaxTime == 2      \* the clock runs over days 0..MaxTime
MaxId == 2        \* rowids handed out by the workspaces table stay <= MaxId
MaxLog == 2       \* rows of the notifications table stay <= MaxLog

\* ---------------------------------------------------------------- time
\* a second, in the model's unit: timestamps carry fractions of a second
Second == 2
Day == 24 * 60 * 60 * Second
\* chrono::Duration::days(n)
days(n) == n * Day
\* chrono::Duration::num_days(): whole days, truncated towards zero
num_days(d) == IF d >= 0 THEN d \div Day ELSE -((-d) \div Day)
\* SQLite unixepoch(): whole seconds
unixepoch(t) == t \div Second

\* ---------------------------------------------------------------- inputs
Procs == {"p1", "p2"}
SeqProcs == {"p1"}
Users == {"alice"}
Names == {"p", "q"}
\* (get_current_username(), get_current_uid()) of the invoking process
Callers == { [name |-> "alice", uid |-> 1000],
             [name |-> "bob", uid |-> 1001],
             [name |-> "root", uid |-> 0] }
None == "none"

\* config::Filesystem, as main() reads it from the configuration file
Policy(disabled, snapshot) ==
  [ root |-> "tank", max_duration |-> days(1), expired_retention |-> days(1),
    expiry_notifications_on_days |-> << days(0), days(2) >>,
    snapshot |-> snapshot, disabled |-> disabled ]

\* the configurations the model runs under: the filesystem open or disabled
Configs == { [ f \in {"fsA"} |-> Policy(d, TRUE) ] : d \in BOOLEAN }
Roots == { "tank" }

\* durations a caller may ask for: max_duration itself and one more
Durations == { days(1), days(2) }

VARIABLES
  filesystems,    \* Config.filesystems: filesystem name |-> config::Filesystem
  now,            \* the wall clock (Utc::now())
  workspaces,     \* committed rows of table workspaces
  notifications,  \* committed rows of table notifications, in insertion order
  volumes,        \* ZFS datasets: volume |-> "absent" | "rw" | "ro"
  writer,         \* the process holding SQLite's write lock, or None
  pc,             \* per process: where the invocation stands
  op,             \* per process: the command line of the invocation
  result,         \* per process: how its latest invocation ended
  view,           \* per process: the store as its open transaction sees it
  cursor,         \* per process: rowid of the last row the sweep stepped over
  mailed,         \* per process: the reminders its sweep has sent (rowid, subject)
  user_version,   \* PRAGMA user_version of the database
  tables,         \* the tables the database has
  journal_mode,   \* PRAGMA journal_mode of the database
  backups         \* the backup files written next to the database

vars == << filesystems, now, workspaces, notifications, volumes, writer,
           pc, op, result, view, cursor, mailed,
           user_version, tables, journal_mode, backups >>
schema == << user_version, tables, journal_mode, backups >>
store == << workspaces, notifications >>

\* ---------------------------------------------------------------- db_schema.rs
\* pub const NEWEST_DB_VERSION: usize = UPDATE_DB.len()
NEWEST_DB_VERSION == 2

\* the tables the database has once migrations 0 .. v-1 have run: migration 0
\* creates workspaces with the implicit rowid, migration 1 rebuilds it with
\* the id column and creates notifications
TablesAt(v) ==
  IF v = 0 THEN {}
  ELSE IF v = 1 THEN { "workspaces_rowid" }
  ELSE { "workspaces", "notifications" }

\* ---------------------------------------------------------------- helpers
Min(a, b) == IF a < b THEN a ELSE b
Max(a, b) == IF a > b THEN a ELSE b

\* main.rs: format!("{}/{}/{}", root, user, name)
to_volume_string(root, user, name) == << root, user, name >>

Volumes == { to_volume_string(r, u, n) : r \in Roots, u \in Users, n \in Names }

\* faulty variant: the WHERE clause leaves the name out
MatchingAnyName(ws, f, u, n) ==
  { r \in ws : r.filesystem = f /\ r.user = u }

\* rows of `ws` matching WHERE filesystem = f AND user = u AND name = n
Matching(ws, f, u, n) ==
  { r \in ws : r.filesystem = f /\ r.user = u /\ r.name = n }

\* faulty variant: a table without the UNIQUE constraint
UniqueNotEnforced(ws, f, u, n) == FALSE

\* UNIQUE(filesystem, user, name)
UniqueViolation(ws, f, u, n) == Matching(ws, f, u, n) # {}

\* id INTEGER PRIMARY KEY without AUTOINCREMENT: largest rowid in use + 1
NextRowid(ws) ==
  IF ws = {} THEN 1
  ELSE (CHOOSE i \in { r.id : r \in ws } : \A r \in ws : r.id <= i) + 1

\* faulty variant: the foreign key is not enforced
CascadeOff(notes, id) == notes

\* FOREIGN KEY(workspace_id) REFERENCES workspaces(id) ON DELETE CASCADE
Cascade(notes, id) == SelectSeq(notes, LAMBDA e : e.workspace_id # id)

NoOp == [ cmd |-> None ]
NoView == << {}, << >> >>
NoResult == [ cmd |-> None, code |-> None ]

\* ---------------------------------------------------------------- zfs.rs
\* Each call runs the zfs binary and may fail; it can only succeed when the
\* dataset state allows it.  `ok` is the outcome the environment picks.
CanCreate(vols, v) == TRUE                       \* zfs create -p
CanDestroy(vols, v) == vols[v] # "absent"        \* zfs destroy -r
CanRename(vols, s, d) == vols[s] # "absent" /\ vols[d] = "absent"
CanSetProperty(vols, v) == vols[v] # "absent"    \* zfs set readonly=..

zfs_create(vols, v) ==
  IF vols[v] = "absent" THEN [vols EXCEPT ![v] = "rw"] ELSE vols
zfs_destroy(vols, v) == [vols EXCEPT ![v] = "absent"]
zfs_rename(vols, s, d) == [vols EXCEPT ![d] = vols[s], ![s] = "absent"]
zfs_set_readonly(vols, v, value) ==
  [vols EXCEPT ![v] = IF value = "on" THEN "ro" ELSE "rw"]

\* ---------------------------------------------------------------- process
\* the process ends; "done" shows the command's name and exit status
Exit(p, o, res) ==
  /\ pc' = [pc EXCEPT ![p] = "done"]
  /\ op' = [op EXCEPT ![p] = NoOp]
  /\ result' = [result EXCEPT ![p] = [cmd |-> o.cmd, code |-> res]]

\* no exit status is waiting to be collected
Settled == \A q \in Procs : pc[q] # "done"

Goto(p, o, label) ==
  /\ pc' = [pc EXCEPT ![p] = label]
  /\ op' = [op EXCEPT ![p] = o]
  /\ result' = [result EXCEPT ![p] = NoResult]

Commit(ws, notes) ==
  /\ workspaces' = ws
  /\ notifications' = notes

Volume(o) == to_volume_string(filesystems[o.filesystem_name].root, o.user, o.name)

\* what the rest of an invocation still reads of its command line once the
\* transaction step is over
Rest(o) ==
  IF o.cmd = "rename"
  THEN [ cmd |-> o.cmd, filesystem_name |-> o.filesystem_name, user |-> o.user,
         name |-> o.name, dest_name |-> o.dest_name ]
  ELSE [ cmd |-> o.cmd, filesystem_name |-> o.filesystem_name, user |-> o.user,
         name |-> o.name ]

\* ---------------------------------------------------------------- create.rs
\* faulty variant: the duration ceiling compared with >= instead of >
CreateCheckAtCeiling(c, f, u, d) ==
  IF c.name # u /\ c.uid # 0 THEN "InsufficientPrivileges"
  ELSE IF filesystems[f].disabled /\ c.uid # 0 THEN "FsDisabled"
  ELSE IF d >= filesystems[f].max_duration /\ c.uid # 0 THEN "TooHighDuration"
  ELSE "Ok"

\* the three checks before the transaction; "Ok" when all pass
CreateCheck(c, f, u, d) ==
  IF c.name # u /\ c.uid # 0 THEN "InsufficientPrivileges"
  ELSE IF filesystems[f].disabled /\ c.uid # 0 THEN "FsDisabled"
  ELSE IF d > filesystems[f].max_duration /\ c.uid # 0 THEN "TooHighDuration"
  ELSE "Ok"

\* faulty variant: the row expires at the creation instant
CreateRowNoDuration(ws, f, u, n, d, t) ==
  [ id |-> NextRowid(ws), filesystem |-> f, user |-> u, name |-> n,
    expiration_time |-> t ]

\* INSERT INTO workspaces ... VALUES(f, u, n, Utc::now() + duration)
CreateRow(ws, f, u, n, d, t) ==
  [ id |-> NextRowid(ws), filesystem |-> f, user |-> u, name |-> n,
    expiration_time |-> t + d ]

\* faulty variant: the row is created without its first log entry
CreateNotificationSkipped(notes, id, t) == notes

\* INSERT INTO notifications VALUES(last_insert_rowid(), Utc::now())
CreateNotification(notes, id, t) ==
  Append(notes, [workspace_id |-> id, timestamp |-> t])

Create(p, c, f, u, n, d) ==
  /\ pc[p] = "idle" /\ Settled
  /\ LET o == [ cmd |-> "create", caller |-> c, filesystem_name |-> f,
                user |-> u, name |-> n, duration |-> d ]
         chk == CreateCheck(c, f, u, d)
         row == CreateRow(workspaces, f, u, n, d, now)
     IN IF chk # "Ok"
        THEN Exit(p, o, chk) /\ UNCHANGED store
        ELSE IF writer # None
        THEN Exit(p, o, "Panic") /\ UNCHANGED store       \* SQLITE_BUSY
        ELSE IF UniqueViolation(workspaces, f, u, n)
        THEN Exit(p, o, "WorkspaceExists") /\ UNCHANGED store
        ELSE /\ row.id <= MaxId
             /\ Len(notifications) < MaxLog
             /\ Commit(workspaces \cup {row},
                       CreateNotification(notifications, row.id, now))
             /\ Goto(p, Rest(o), "create_zfs")
  /\ UNCHANGED << schema, filesystems, mailed, now, volumes, writer, view, cursor >>

\* after the commit: zfs::create, then mountpoint / chmod / chown
CreateZfs(p) ==
  /\ pc[p] = "create_zfs" /\ Settled
  /\ LET v == Volume(op[p]) IN
     \E outcome \in {"ok", "create_fails", "setup_fails"} :
       IF outcome = "create_fails"
       THEN /\ UNCHANGED volumes
            /\ Exit(p, op[p], "Err")
       ELSE /\ CanCreate(volumes, v)
            /\ volumes' = zfs_create(volumes, v)
            /\ Exit(p, op[p], IF outcome = "ok" THEN "Ok" ELSE "Err")
  /\ UNCHANGED << schema, filesystems, mailed, now, workspaces, notifications, writer, view, cursor >>

\* ---------------------------------------------------------------- expire.rs
\* faulty variant: expire without the ownership check
ExpireCheckOff(c, u) == "Ok"

ExpireCheck(c, u) ==
  IF c.name # u /\ c.uid # 0 THEN "InsufficientPrivileges" ELSE "Ok"

\* the expiration handed to the UPDATE
ExpireCandidate(f, delete_on_next_clean, t) ==
  IF delete_on_next_clean THEN t - filesystems[f].expired_retention ELSE t

\* faulty variant: SET expiration_time = ?2
ExpireUpdateAssign(ws, id, candidate) ==
  { IF r.id = id THEN [r EXCEPT !.expiration_time = candidate] ELSE r : r \in ws }

\* UPDATE workspaces SET expiration_time = MIN(expiration_time, ?2) WHERE id = ?1
ExpireUpdate(ws, id, candidate) ==
  { IF r.id = id
    THEN [r EXCEPT !.expiration_time = Min(r.expiration_time, candidate)]
    ELSE r : r \in ws }

\* faulty variant: the Expire leaves the log as it is
ExpireNotificationSkipped(notes, id, t) == notes

\* INSERT INTO notifications(workspace_id, timestamp) VALUES (?1, Utc::now())
ExpireNotification(notes, id, t) ==
  Append(notes, [workspace_id |-> id, timestamp |-> t])

Expire(p, c, f, u, n, delete_on_next_clean) ==
  /\ pc[p] = "idle" /\ Settled
  /\ LET o == [ cmd |-> "expire", caller |-> c, filesystem_name |-> f,
                user |-> u, name |-> n,
                delete_on_next_clean |-> delete_on_next_clean ]
         chk == ExpireCheck(c, u)
         found == Matching(workspaces, f, u, n)
     IN IF chk # "Ok"
        THEN Exit(p, o, chk) /\ UNCHANGED store
        ELSE IF found = {}
        THEN Exit(p, o, "UnknownWorkspace") /\ UNCHANGED store
        ELSE IF writer # None
        THEN Exit(p, o, "Panic") /\ UNCHANGED store       \* SQLITE_BUSY
        ELSE LET id == (CHOOSE r \in found : TRUE).id IN
             /\ Len(notifications) < MaxLog
             /\ Commit(ExpireUpdate(workspaces, id,
                                    ExpireCandidate(f, delete_on_next_clean, now)),
                       ExpireNotification(notifications, id, now))
             /\ Goto(p, Rest(o), "expire_zfs")
  /\ UNCHANGED << schema, filesystems, mailed, now, volumes, writer, view, cursor >>

\* after the commit: zfs::set_property(volume, "readonly", "on").unwrap()
ExpireZfs(p) ==
  /\ pc[p] = "expire_zfs" /\ Settled
  /\ LET v == Volume(op[p]) IN
     \E ok \in BOOLEAN :
       /\ ok => CanSetProperty(volumes, v)
       /\ volumes' = IF ok THEN zfs_set_readonly(volumes, v, "on") ELSE volumes
       /\ Exit(p, op[p], IF ok THEN "Ok" ELSE "Panic")
  /\ UNCHANGED << schema, filesystems, mailed, now, workspaces, notifications, writer, view, cursor >>

\* ---------------------------------------------------------------- extend.rs
\* faulty variant: the duration ceiling is not checked
ExtendCheckNoCeiling(c, f, u, d) ==
  IF c.name # u /\ c.uid # 0 THEN "InsufficientPrivileges"
  ELSE IF filesystems[f].disabled /\ c.uid # 0 THEN "FsDisabled"
  ELSE "Ok"

\* the three checks before the transaction; "Ok" when all pass
ExtendCheck(c, f, u, d) ==
  IF c.name # u /\ c.uid # 0 THEN "InsufficientPrivileges"
  ELSE IF filesystems[f].disabled /\ c.uid # 0 THEN "FsDisabled"
  ELSE IF d > filesystems[f].max_duration /\ c.uid # 0 THEN "TooHighDuration"
  ELSE "Ok"

\* faulty variant: SET expiration_time = ?2
ExtendUpdateAssign(ws, id, d, t) ==
  { IF r.id = id THEN [r EXCEPT !.expiration_time = t + d] ELSE r : r \in ws }

\* UPDATE workspaces SET expiration_time = MAX(expiration_time, ?2) WHERE id = ?1
ExtendUpdate(ws, id, d, t) ==
  { IF r.id = id
    THEN [r EXCEPT !.expiration_time = Max(r.expiration_time, t + d)]
    ELSE r : r \in ws }

\* faulty variant: the comparison is >= and takes the entries of this second
ExtendDeleteFutureInclusive(notes, id, t) ==
  SelectSeq(notes, LAMBDA e :
    ~(e.workspace_id = id /\ unixepoch(e.timestamp) >= unixepoch(t)))

\* DELETE FROM notifications
\*   WHERE workspace_id = ?1 AND unixepoch(timestamp) > unixepoch(now)
ExtendDeleteFuture(notes, id, t) ==
  SelectSeq(notes, LAMBDA e :
    ~(e.workspace_id = id /\ unixepoch(e.timestamp) > unixepoch(t)))

\* faulty variant: every Extend acknowledges
ExtendAcknowledgesAlways(c, u) == TRUE

\* the acknowledging entry, only for the unprivileged owner
ExtendAcknowledges(c, u) == c.name = u /\ c.uid # 0

ExtendNotifications(notes, id, c, u, t) ==
  IF ExtendAcknowledges(c, u)
  THEN Append(ExtendDeleteFuture(notes, id, t),
              [workspace_id |-> id, timestamp |-> t])
  ELSE ExtendDeleteFuture(notes, id, t)

Extend(p, c, f, u, n, d) ==
  /\ pc[p] = "idle" /\ Settled
  /\ LET o == [ cmd |-> "extend", caller |-> c, filesystem_name |-> f,
                user |-> u, name |-> n, duration |-> d ]
         chk == ExtendCheck(c, f, u, d)
         found == Matching(workspaces, f, u, n)
     IN IF chk # "Ok"
        THEN Exit(p, o, chk) /\ UNCHANGED store
        ELSE IF found = {}
        THEN Exit(p, o, "UnknownWorkspace") /\ UNCHANGED store
        ELSE IF writer # None
        THEN Exit(p, o, "Panic") /\ UNCHANGED store       \* SQLITE_BUSY
        ELSE LET id == (CHOOSE r \in found : TRUE).id
                 notes == ExtendNotifications(notifications, id, c, u, now)
             IN /\ Len(notes) <= MaxLog
                /\ Commit(ExtendUpdate(workspaces, id, d, now), notes)
                /\ Goto(p, Rest(o), "extend_zfs")
  /\ UNCHANGED << schema, filesystems, mailed, now, volumes, writer, view, cursor >>

\* after the commit: zfs::set_property(volume, "readonly", "off").unwrap(),
\* then the row is read back for the mail (`?` when it is gone)
ExtendZfs(p) ==
  /\ pc[p] = "extend_zfs" /\ Settled
  /\ LET v == Volume(op[p])
         found == Matching(workspaces, op[p].filesystem_name, op[p].user, op[p].name)
     IN \E ok \in BOOLEAN :
       /\ ok => CanSetProperty(volumes, v)
       /\ volumes' = IF ok THEN zfs_set_readonly(volumes, v, "off") ELSE volumes
       /\ Exit(p, op[p], IF ~ok THEN "Panic" ELSE IF found = {} THEN "Err" ELSE "Ok")
  /\ UNCHANGED << schema, filesystems, mailed, now, workspaces, notifications, writer, view, cursor >>

\* ---------------------------------------------------------------- rename.rs
RenameCheck(c, f, u) ==
  IF c.name # u /\ c.uid # 0 THEN "InsufficientPrivileges"
  ELSE IF filesystems[f].disabled /\ c.uid # 0 THEN "FsDisabled"
  ELSE "Ok"

\* UPDATE workspaces SET name = dest WHERE filesystem, user, name = src
RenameUpdate(ws, f, u, src, dest) ==
  { IF r.filesystem = f /\ r.user = u /\ r.name = src
    THEN [r EXCEPT !.name = dest] ELSE r : r \in ws }

\* faulty variant: the UPDATE never meets the UNIQUE constraint
RenameConflictIgnored(ws, f, u, src, dest) == FALSE

\* the UPDATE fails on UNIQUE(filesystem, user, name) when it moves a row
\* onto the triple of another row
RenameConflict(ws, f, u, src, dest) ==
  \E r \in Matching(ws, f, u, src) :
    \E r2 \in Matching(ws, f, u, dest) : r2.id # r.id

Rename(p, c, f, u, src, dest) ==
  /\ pc[p] = "idle" /\ Settled
  /\ LET o == [ cmd |-> "rename", caller |-> c, filesystem_name |-> f,
                user |-> u, name |-> src, dest_name |-> dest ]
         chk == RenameCheck(c, f, u)
     IN IF chk # "Ok"
        THEN Exit(p, o, chk) /\ UNCHANGED << writer, view >>
        ELSE IF writer # None
        THEN Exit(p, o, "Panic") /\ UNCHANGED << writer, view >>  \* SQLITE_BUSY
        ELSE IF RenameConflict(workspaces, f, u, src, dest)
        THEN Exit(p, o, "WorkspaceExists") /\ UNCHANGED << writer, view >>
        ELSE /\ writer' = p
             /\ view' = [view EXCEPT ![p] =
                  << RenameUpdate(workspaces, f, u, src, dest), notifications >>]
             /\ Goto(p, Rest(o), "rename_zfs")
  /\ UNCHANGED << schema, filesystems, mailed, now, workspaces, notifications, volumes, cursor >>

\* inside the open transaction: zfs::rename(src_volume, dest_volume).unwrap();
\* a panic drops the transaction, which rolls it back
RenameZfs(p) ==
  /\ pc[p] = "rename_zfs" /\ Settled
  /\ LET o == op[p]
         root == filesystems[o.filesystem_name].root
         s == to_volume_string(root, o.user, o.name)
         d == to_volume_string(root, o.user, o.dest_name)
     IN \E ok \in BOOLEAN :
       /\ ok => CanRename(volumes, s, d)
       /\ IF ok
          THEN /\ volumes' = zfs_rename(volumes, s, d)
               /\ Goto(p, o, "rename_commit")
               /\ UNCHANGED << writer, view >>
          ELSE /\ UNCHANGED volumes
               /\ writer' = None
               /\ view' = [view EXCEPT ![p] = NoView]
               /\ Exit(p, o, "Panic")
  /\ UNCHANGED << schema, filesystems, mailed, now, workspaces, notifications, cursor >>

\* transaction.commit().unwrap()
RenameCommit(p) ==
  /\ pc[p] = "rename_commit" /\ Settled
  /\ Commit(view[p][1], view[p][2])
  /\ writer' = None
  /\ view' = [view EXCEPT ![p] = NoView]
  /\ Exit(p, op[p], "Ok")
  /\ UNCHANGED << schema, filesystems, mailed, now, volumes, cursor >>

\* ---------------------------------------------------------------- maintain.rs
\* faulty variant: ORDER BY timestamp ASC, the oldest entry
LastNotificationTimeOldest(notes, id) ==
  LET ts == { notes[i].timestamp :
                i \in { j \in DOMAIN notes : notes[j].workspace_id = id } }
  IN IF ts = {} THEN << >>
     ELSE << CHOOSE t \in ts : \A t2 \in ts : t <= t2 >>

\* SELECT timestamp FROM notifications WHERE workspace_id = ?1
\*   ORDER BY timestamp DESC LIMIT 1;  << >> when there is none
LastNotificationTime(notes, id) ==
  LET ts == { notes[i].timestamp :
                i \in { j \in DOMAIN notes : notes[j].workspace_id = id } }
  IN IF ts = {} THEN << >>
     ELSE << CHOOSE t \in ts : \A t2 \in ts : t2 <= t >>

\* faulty variant: an offset equal to the remaining time counts as passed
PassedDeadlineInclusive(offsets, remaining) ==
  LET idx == { i \in DOMAIN offsets : offsets[i] >= remaining }
  IN IF idx = {} THEN << >>
     ELSE << offsets[CHOOSE i \in idx : \A j \in idx : i <= j] >>

\* expiry_notifications_on_days.iter().filter(|d| d > remaining).next()
PassedDeadline(offsets, remaining) ==
  LET idx == { i \in DOMAIN offsets : offsets[i] > remaining }
  IN IF idx = {} THEN << >>
     ELSE << offsets[CHOOSE i \in idx : \A j \in idx : i <= j] >>

\* whether notify_if_necessary_ sends a mail for the row at instant t
NotifyNecessary(expiration_time, offsets, last, t) ==
  LET duration_until_expiry == expiration_time - t
      passed == PassedDeadline(offsets, duration_until_expiry)
  IN /\ passed # << >>
     /\ \/ last = << >>
        \/ LET duration_since_last_notification == t - last[1]
           IN (t - duration_since_last_notification) < (expiration_time - passed[1])

\* the subject line of the mail: which kind, and the days it reports
Subject(expiration_time, expired_retention, t) ==
  LET duration_until_expiry == expiration_time - t
  IN IF duration_until_expiry > 0
     THEN [ kind |-> "expire", days |-> num_days(duration_until_expiry) ]
     ELSE [ kind |-> "delete",
            days |-> num_days(expired_retention + duration_until_expiry) ]

\* what can go wrong around one notification
NotifyEnv == { "ok", "user_not_found", "user_config_error", "relay_error",
               "mailbox_error", "send_error" }

\* the open transaction of p may write: it holds the write lock, or the lock
\* is free and nothing was committed since p's snapshot was taken
CanWrite(p) == writer = p \/ (writer = None /\ view[p] = store)

\* faulty variant: a failure to send is passed over like a user error
NotifyOutcomeSendSkipped(smtp, env, necessary) ==
  IF ~smtp THEN "skip"
  ELSE IF env = "user_not_found" THEN "panic"
  ELSE IF env = "user_config_error" THEN "skip"
  ELSE IF env = "relay_error" THEN "panic"
  ELSE IF ~necessary THEN "skip"
  ELSE IF env = "mailbox_error" THEN "skip"
  ELSE IF env = "send_error" THEN "skip"
  ELSE "sent"

\* The notification part of one loop iteration: "skip" (nothing sent, also a
\* recoverable user error), "sent" (mail sent, entry to insert), "panic"
NotifyOutcome(smtp, env, necessary) ==
  IF ~smtp THEN "skip"
  ELSE IF env = "user_not_found" THEN "panic"       \* not among the user errors
  ELSE IF env = "user_config_error" THEN "skip"
  ELSE IF env = "relay_error" THEN "panic"
  ELSE IF ~necessary THEN "skip"
  ELSE IF env = "mailbox_error" THEN "skip"
  ELSE IF env = "send_error" THEN "panic"
  ELSE "sent"

\* faulty variant: the retention boundary itself counts as past
PastRetentionInclusive(row, t) ==
  row.expiration_time <= t - filesystems[row.filesystem].expired_retention

\* now is past expiration_time + expired_retention
PastRetention(row, t) ==
  row.expiration_time < t - filesystems[row.filesystem].expired_retention

\* faulty variant: a row counts as expired only a day after its expiration
ExpiredLate(row, t) == row.expiration_time + Day < t

\* now is past expiration_time
Expired(row, t) == row.expiration_time < t

\* the row the cursor of p stands before; {} at the end of the table
SweepPending(p) == { r \in view[p][1] : r.id > cursor[p] }
SweepRowOf(p) ==
  CHOOSE r \in SweepPending(p) : \A r2 \in SweepPending(p) : r.id <= r2.id

\* cli::Command::Maintain: the transaction is opened and the SELECT over
\* workspaces takes its snapshot
Maintain(p, smtp) ==
  /\ pc[p] = "idle" /\ Settled
  /\ view' = [view EXCEPT ![p] = store]
  /\ cursor' = [cursor EXCEPT ![p] = 0]
  /\ Goto(p, [cmd |-> "maintain", smtp |-> smtp], "sweep_rows")
  /\ UNCHANGED << schema, filesystems, mailed, now, workspaces, notifications, volumes, writer >>

\* the sweep is over: what it reports, and the reminders and snapshot
\* requests it has issued
SweepExit(p, code, sent_to, snapshots) ==
  /\ pc' = [pc EXCEPT ![p] = "done"]
  /\ op' = [op EXCEPT ![p] = NoOp]
  /\ result' = [result EXCEPT ![p] =
       [ cmd |-> "maintain", code |-> code, mailed |-> sent_to,
         snapshots |-> snapshots ]]
  /\ mailed' = [mailed EXCEPT ![p] = {}]

\* a panic or an early return drops the transaction, which rolls it back
SweepAbort(p, code, sent_to) ==
  /\ writer' = IF writer = p THEN None ELSE writer
  /\ view' = [view EXCEPT ![p] = NoView]
  /\ cursor' = [cursor EXCEPT ![p] = 0]
  /\ SweepExit(p, code, sent_to, {})

SweepContinue(p, row, ws, notes, wrote, sent_to) ==
  /\ writer' = IF wrote THEN p ELSE writer
  /\ view' = [view EXCEPT ![p] = << ws, notes >>]
  /\ cursor' = [cursor EXCEPT ![p] = row.id]
  /\ mailed' = [mailed EXCEPT ![p] = sent_to]
  /\ UNCHANGED << pc, op, result >>

\* one iteration of `while let Some(row) = rows.next()?`, in environment
\* env around the notification and with the zfs call succeeding (ok) or not
SweepRowEnv(p, env, ok) ==
  /\ pc[p] = "sweep_rows" /\ Settled
  /\ SweepPending(p) # {}
  /\ LET row == SweepRowOf(p)
         fs == filesystems[row.filesystem]
         ws == view[p][1]
         notes == view[p][2]
         v == to_volume_string(fs.root, row.user, row.name)
         necessary == NotifyNecessary(row.expiration_time,
                        fs.expiry_notifications_on_days,
                        LastNotificationTime(notes, row.id), now)
     IN LET outcome == NotifyOutcome(op[p].smtp, env, necessary)
            sent == outcome = "sent"
            notes2 == IF sent
                      THEN Append(notes, [workspace_id |-> row.id, timestamp |-> now])
                      ELSE notes
            to == IF sent
                  THEN mailed[p] \cup
                         { [ id |-> row.id,
                             subject |-> Subject(row.expiration_time,
                                                 fs.expired_retention, now) ] }
                  ELSE mailed[p]
        IN /\ Len(notes2) <= MaxLog
           /\ IF outcome = "panic" \/ (sent /\ ~CanWrite(p))
              THEN SweepAbort(p, "Panic", to) /\ UNCHANGED volumes
              ELSE IF PastRetention(row, now)
              THEN /\ ok => CanDestroy(volumes, v)
                   /\ IF ~ok
                      THEN SweepContinue(p, row, ws, notes2, sent, to)
                           /\ UNCHANGED volumes
                      ELSE /\ volumes' = zfs_destroy(volumes, v)
                           /\ IF sent \/ CanWrite(p)
                              THEN SweepContinue(p, row, ws \ {row},
                                                 Cascade(notes2, row.id), TRUE, to)
                              ELSE SweepAbort(p, "Err", to)
              ELSE IF Expired(row, now)
              THEN /\ ok => CanSetProperty(volumes, v)
                   /\ IF ok
                      THEN /\ volumes' = zfs_set_readonly(volumes, v, "on")
                           /\ SweepContinue(p, row, ws, notes2, sent, to)
                      ELSE SweepAbort(p, "Err", to) /\ UNCHANGED volumes
              ELSE /\ ok
                   /\ SweepContinue(p, row, ws, notes2, sent, to)
                   /\ UNCHANGED volumes
  /\ UNCHANGED << schema, filesystems, now, workspaces, notifications >>

SweepRow(p) == \E env \in NotifyEnv, ok \in BOOLEAN : SweepRowEnv(p, env, ok)

\* rows.next() returns None: transaction.commit()?
SweepCommit(p) ==
  /\ pc[p] = "sweep_rows" /\ Settled
  /\ SweepPending(p) = {}
  /\ IF writer = p
     THEN Commit(view[p][1], view[p][2]) /\ writer' = None
     ELSE UNCHANGED << workspaces, notifications, writer >>
  /\ view' = [view EXCEPT ![p] = NoView]
  /\ cursor' = [cursor EXCEPT ![p] = 0]
  /\ Goto(p, op[p], "sweep_snapshot")
  /\ UNCHANGED << schema, filesystems, mailed, now, volumes >>

\* for filesystem in filesystems.values() { if snapshot { zfs::snapshot(root)? } }
\* in the map's order, up to the first request that fails
SweepSnapshot(p) ==
  /\ pc[p] = "sweep_snapshot" /\ Settled
  /\ LET flagged == { f \in DOMAIN filesystems : filesystems[f].snapshot } IN
     \E taken \in SUBSET flagged, failed \in SUBSET flagged :
       /\ taken \cap failed = {}
       /\ \/ failed = {} /\ taken = flagged
          \/ Cardinality(failed) = 1
       /\ SweepExit(p, IF failed = {} THEN "Ok" ELSE "Err", mailed[p],
                    taken \cup failed)
  /\ UNCHANGED << schema, filesystems, now, workspaces, notifications, volumes, writer,
                  view, cursor >>

\* ---------------------------------------------------------------- clock
Tick ==
  /\ Settled
  /\ now < days(MaxTime)
  /\ now' = now + Day
  /\ UNCHANGED << schema, filesystems, mailed, workspaces, notifications, volumes, writer,
                  pc, op, result, view, cursor >>

\* the exit status is collected; the slot takes the next invocation
Finish(p) ==
  /\ pc[p] = "done"
  /\ pc' = [pc EXCEPT ![p] = "idle"]
  /\ result' = [result EXCEPT ![p] = NoResult]
  /\ UNCHANGED << schema, filesystems, mailed, now, workspaces, notifications, volumes, writer,
                  op, view, cursor >>

\* the database is at the newest version: both migrations of UPDATE_DB have
\* run and nothing was left to back up since
Migrated ==
  /\ user_version = NEWEST_DB_VERSION
  /\ tables = TablesAt(NEWEST_DB_VERSION)
  /\ journal_mode = "wal"
  /\ backups = {}

\* main() has read a configuration and opened a database without rows
Init ==
  /\ filesystems \in Configs
  /\ now = 0
  /\ workspaces = {}
  /\ notifications = << >>
  /\ volumes = [v \in Volumes |-> "absent"]
  /\ writer = None
  /\ pc = [p \in Procs |-> "idle"]
  /\ op = [p \in Procs |-> NoOp]
  /\ result = [p \in Procs |-> NoResult]
  /\ view = [p \in Procs |-> NoView]
  /\ cursor = [p \in Procs |-> 0]
  /\ mailed = [p \in Procs |-> {}]
  /\ Migrated

Step(p) ==
  \/ \E c \in Callers, f \in DOMAIN filesystems, u \in Users, n \in Names, d \in Durations :
       Create(p, c, f, u, n, d)
  \/ CreateZfs(p)
  \/ \E c \in Callers, f \in DOMAIN filesystems, u \in Users, n \in Names, b \in BOOLEAN :
       Expire(p, c, f, u, n, b)
  \/ ExpireZfs(p)
  \/ \E c \in Callers, f \in DOMAIN filesystems, u \in Users, n \in Names, d \in Durations :
       Extend(p, c, f, u, n, d)
  \/ ExtendZfs(p)
  \/ \E c \in Callers, f \in DOMAIN filesystems, u \in Users, s \in Names, d \in Names :
       Rename(p, c, f, u, s, d)
  \/ RenameZfs(p)
  \/ RenameCommit(p)
  \/ \E smtp \in BOOLEAN : Maintain(p, smtp)
  \/ SweepRow(p)
  \/ SweepCommit(p)
  \/ SweepSnapshot(p)
  \/ Finish(p)

\* the configuration leaves the filesystem open
InitOpen == Init /\ \A f \in DOMAIN filesystems : ~filesystems[f].disabled

\* one invocation at a time
Next == Tick \/ \E p \in SeqProcs : Step(p)
\* on the open filesystem
Spec == InitOpen /\ [][Next]_vars
\* on the open and on the disabled filesystem
SpecPolicy == Init /\ [][Next]_vars

\* A database left by earlier runs, opened on day 1: one workspace of alice
\* with its volume, and a log written under a clock that may have been ahead
\* of the present one (or by a release whose expire logged future instants)
StoredTimestamps ==
  { days(0), days(1), days(1) + 1, days(1) + Second, days(2) }
StoredExpirations == { days(0), days(1), days(2) }
StoredEntries == [ workspace_id : {1}, timestamp : StoredTimestamps ]
StoredLogs ==
  { << e >> : e \in StoredEntries }
    \cup { << e1, e2 >> : e1 \in StoredEntries, e2 \in StoredEntries }

InitStored ==
  /\ filesystems \in Configs
  /\ \A f \in DOMAIN filesystems : ~filesystems[f].disabled
  /\ now = days(1)
  /\ \E exp \in StoredExpirations :
       workspaces = { [ id |-> 1, filesystem |-> "fsA", user |-> "alice",
                        name |-> "p", expiration_time |-> exp ] }
  /\ notifications \in StoredLogs
  /\ volumes = [v \in Volumes |->
                  IF v = to_volume_string("tank", "alice", "p") THEN "rw"
                  ELSE "absent"]
  /\ writer = None
  /\ pc = [p \in Procs |-> "idle"]
  /\ op = [p \in Procs |-> NoOp]
  /\ result = [p \in Procs |-> NoResult]
  /\ view = [p \in Procs |-> NoView]
  /\ cursor = [p \in Procs |-> 0]
  /\ mailed = [p \in Procs |-> {}]
  /\ Migrated

\* one invocation at a time, on the stored database
SpecStored == InitStored /\ [][Next]_vars

\* The scheduler's inputs: a database opened on day 0 or day 1 that holds one
\* or two workspaces of alice, whose filesystem has any ascending list of
\* offsets (from_days_list sorts what the configuration gives); the log is
\* empty or holds one entry of the first workspace, not later than now
SchedDays == { days(-1), days(0), days(1), days(2) }
SchedOffsets ==
  { << >> } \cup { << a >> : a \in SchedDays }
    \cup { o \in { << a, b >> : a \in SchedDays, b \in SchedDays } : o[1] <= o[2] }
SchedExpirations == { days(0), days(1), days(1) + 1, days(2), days(3) }
SchedNow == { days(0), days(1) }
SchedLogs ==
  { << >> } \cup { << [workspace_id |-> 1, timestamp |-> t] >> : t \in SchedNow }
SchedRow(id, name, exp) ==
  [ id |-> id, filesystem |-> "fsA", user |-> "alice", name |-> name,
    expiration_time |-> exp ]
SchedTables ==
  { { SchedRow(1, "p", e1) } : e1 \in SchedExpirations }
    \cup { { SchedRow(1, "p", e1), SchedRow(2, "q", e2) } :
             e1 \in SchedExpirations, e2 \in SchedExpirations }

InitSched ==
  /\ \E offsets \in SchedOffsets :
       filesystems = [ f \in {"fsA"} |->
         [ Policy(FALSE, TRUE) EXCEPT !.expiry_notifications_on_days = offsets ] ]
  /\ now \in SchedNow
  /\ workspaces \in SchedTables
  /\ notifications \in SchedLogs
  /\ \A i \in DOMAIN notifications : notifications[i].timestamp <= now
  /\ volumes = [v \in Volumes |->
                  IF \E r \in workspaces : v = to_volume_string("tank", r.user, r.name)
                  THEN "rw" ELSE "absent"]
  /\ writer = None
  /\ pc = [p \in Procs |-> "idle"]
  /\ op = [p \in Procs |-> NoOp]
  /\ result = [p \in Procs |-> NoResult]
  /\ view = [p \in Procs |-> NoView]
  /\ cursor = [p \in Procs |-> 0]
  /\ mailed = [p \in Procs |-> {}]
  /\ Migrated

\* cli::Command::Maintain, run from the timer
Sweep(p) ==
  \/ \E smtp \in BOOLEAN : Maintain(p, smtp)
  \/ SweepRow(p)
  \/ SweepCommit(p)
  \/ SweepSnapshot(p)
  \/ Finish(p)

\* nothing but the periodic sweep runs
NextSched == Tick \/ \E p \in SeqProcs : Sweep(p)
SpecSched == InitSched /\ [][NextSched]_vars

\* Two workspaces of alice with their volumes, not yet expired, on day 0;
\* the owner or root expires them and the timer runs the sweep
CleanupExpirations == { days(1), days(2) }
CleanupRetentions == { days(1), days(2) }
CleanupTables ==
  { { SchedRow(1, "p", e1), SchedRow(2, "q", e2) } :
      e1 \in CleanupExpirations, e2 \in CleanupExpirations }

InitCleanup ==
  /\ \E retention \in CleanupRetentions :
       filesystems = [ f \in {"fsA"} |->
         [ Policy(FALSE, TRUE) EXCEPT !.expired_retention = retention ] ]
  /\ now = 0
  /\ workspaces \in CleanupTables
  /\ notifications = << >>
  /\ volumes = [v \in Volumes |-> "rw"]
  /\ writer = None
  /\ pc = [p \in Procs |-> "idle"]
  /\ op = [p \in Procs |-> NoOp]
  /\ result = [p \in Procs |-> NoResult]
  /\ view = [p \in Procs |-> NoView]
  /\ cursor = [p \in Procs |-> 0]
  /\ mailed = [p \in Procs |-> {}]
  /\ Migrated

\* cli::Command::Expire and cli::Command::Maintain
Cleanup(p) ==
  \/ \E c \in Callers, f \in DOMAIN filesystems, u \in Users, n \in Names, b \in BOOLEAN :
       Expire(p, c, f, u, n, b)
  \/ ExpireZfs(p)
  \/ Sweep(p)

NextCleanup == Tick \/ \E p \in SeqProcs : Cleanup(p)
SpecCleanup == InitCleanup /\ [][NextCleanup]_vars

\* Two filesystems, each flagged for snapshots or not, and a database that is
\* empty or holds one workspace of alice on the first of them
SnapConfigs ==
  { [ f \in {"fsA", "fsB"} |->
        [ Policy(FALSE, IF f = "fsA" THEN a ELSE b)
            EXCEPT !.root = IF f = "fsA" THEN "tank" ELSE "pool" ] ] :
      a \in BOOLEAN, b \in BOOLEAN }
SnapTables ==
  { {} } \cup { { SchedRow(1, "p", e) } : e \in SchedExpirations }

InitSnap ==
  /\ filesystems \in SnapConfigs
  /\ now \in SchedNow
  /\ workspaces \in SnapTables
  /\ notifications = << >>
  /\ volumes = [v \in Volumes |->
                  IF \E r \in workspaces : v = to_volume_string("tank", r.user, r.name)
                  THEN "rw" ELSE "absent"]
  /\ writer = None
  /\ pc = [p \in Procs |-> "idle"]
  /\ op = [p \in Procs |-> NoOp]
  /\ result = [p \in Procs |-> NoResult]
  /\ view = [p \in Procs |-> NoView]
  /\ cursor = [p \in Procs |-> 0]
  /\ mailed = [p \in Procs |-> {}]
  /\ Migrated

\* the periodic sweep over two filesystems
SpecSnap == InitSnap /\ [][NextSched]_vars

\* ---------------------------------------------------------------- main.rs
\* update_database_schema_if_necessary returns or panics; the result shows
\* the version it read and the migrations it has committed, in order
UpgradeExit(p, code, db_version, ran) ==
  /\ pc' = [pc EXCEPT ![p] = "done"]
  /\ op' = [op EXCEPT ![p] = NoOp]
  /\ result' = [result EXCEPT ![p] =
       [ cmd |-> "upgrade", code |-> code, db_version |-> db_version,
         ran |-> ran ]]

\* faulty variant: without the assert!
UpgradeNoAssert(p) ==
  /\ pc[p] = "idle" /\ Settled
  /\ IF user_version = NEWEST_DB_VERSION
     THEN UpgradeExit(p, "Ok", user_version, << >>)
     ELSE Goto(p, [ cmd |-> "upgrade", db_version |-> user_version,
                    next |-> user_version, ran |-> << >> ], "upgrade_backup")
  /\ UNCHANGED << schema, filesystems, mailed, now, workspaces, notifications,
                  volumes, writer, view, cursor >>

\* faulty variant: without the early return
UpgradeNoReturn(p) ==
  /\ pc[p] = "idle" /\ Settled
  /\ IF user_version > NEWEST_DB_VERSION
     THEN UpgradeExit(p, "Panic", user_version, << >>)
     ELSE Goto(p, [ cmd |-> "upgrade", db_version |-> user_version,
                    next |-> user_version, ran |-> << >> ], "upgrade_backup")
  /\ UNCHANGED << schema, filesystems, mailed, now, workspaces, notifications,
                  volumes, writer, view, cursor >>

\* db_version is read; assert!(db_version <= NEWEST_DB_VERSION); an early
\* return at the newest version
Upgrade(p) ==
  /\ pc[p] = "idle" /\ Settled
  /\ IF user_version > NEWEST_DB_VERSION
     THEN UpgradeExit(p, "Panic", user_version, << >>)
     ELSE IF user_version = NEWEST_DB_VERSION
     THEN UpgradeExit(p, "Ok", user_version, << >>)
     ELSE Goto(p, [ cmd |-> "upgrade", db_version |-> user_version,
                    next |-> user_version, ran |-> << >> ], "upgrade_backup")
  /\ UNCHANGED << schema, filesystems, mailed, now, workspaces, notifications,
                  volumes, writer, view, cursor >>

\* a copy of the database as it stands
BackupCopy(complete) ==
  [ at |-> unixepoch(now), complete |-> complete, user_version |-> user_version,
    tables |-> tables, workspaces |-> workspaces, notifications |-> notifications ]

\* faulty variant: a failed backup is passed over
UpgradeBackupIgnored(p) ==
  /\ pc[p] = "upgrade_backup" /\ Settled
  /\ LET others == { b \in backups : b.at # unixepoch(now) } IN
     \E outcome \in { "ok", "fail", "fail_partial" } :
       /\ backups' = IF outcome = "ok" THEN others \cup { BackupCopy(TRUE) }
                     ELSE IF outcome = "fail" THEN backups
                     ELSE others \cup { BackupCopy(FALSE) }
       /\ Goto(p, op[p], "upgrade_apply")
  /\ UNCHANGED << user_version, tables, journal_mode, filesystems, mailed, now,
                  workspaces, notifications, volumes, writer, view, cursor >>

\* Connection::open(backup_path)? and Backup::run_to_completion(..)?: the
\* file named after the present second holds a full copy, or the call fails
\* and the file is not there, is what it was, or holds part of a copy
UpgradeBackup(p) ==
  /\ pc[p] = "upgrade_backup" /\ Settled
  /\ LET others == { b \in backups : b.at # unixepoch(now) } IN
     \E outcome \in { "ok", "fail", "fail_partial" } :
       IF outcome = "ok"
       THEN /\ backups' = others \cup { BackupCopy(TRUE) }
            /\ Goto(p, op[p], "upgrade_apply")
       ELSE /\ backups' = IF outcome = "fail" THEN backups
                          ELSE others \cup { BackupCopy(FALSE) }
            /\ UpgradeExit(p, "Err", op[p].db_version, << >>)
  /\ UNCHANGED << user_version, tables, journal_mode, filesystems, mailed, now,
                  workspaces, notifications, volumes, writer, view, cursor >>

\* faulty variant of the loop's range: the migrations from 0 on
UpgradeFirstFromZero(db_version) == 0

\* UPDATE_DB[db_version..]: the first migration the loop runs
UpgradeFirst(db_version) == db_version

\* faulty variant: the version number is written outside the transaction,
\* so that it stays when the migration fails inside it
UpgradeApplyTorn(p) ==
  /\ pc[p] = "upgrade_apply" /\ Settled
  /\ writer = None
  /\ LET k == IF op[p].ran = << >> THEN UpgradeFirst(op[p].db_version)
              ELSE op[p].next
     IN \E outcome \in { "ok", "fail_before", "fail_inside" } :
       /\ journal_mode' = IF k = 0 /\ outcome # "fail_before" THEN "wal"
                          ELSE journal_mode
       /\ user_version' = IF outcome # "fail_before" THEN k + 1 ELSE user_version
       /\ IF outcome = "ok"
          THEN /\ tables' = TablesAt(k + 1)
               /\ IF k + 1 = NEWEST_DB_VERSION
                  THEN UpgradeExit(p, "Ok", op[p].db_version, Append(op[p].ran, k))
                  ELSE Goto(p, [ op[p] EXCEPT !.next = k + 1,
                                             !.ran = Append(op[p].ran, k) ],
                            "upgrade_apply")
          ELSE /\ UNCHANGED tables
               /\ UpgradeExit(p, "Panic", op[p].db_version, op[p].ran)
  /\ UNCHANGED << backups, filesystems, mailed, now, workspaces, notifications,
                  volumes, writer, view, cursor >>

\* one iteration of `for update_proc in UPDATE_DB[db_version..].iter()`:
\* migration k runs in its transaction and commits its tables together with
\* user_version = k + 1, or an unwrap panics and the transaction is dropped;
\* migration 0 sets journal_mode before it opens its transaction
UpgradeApply(p) ==
  /\ pc[p] = "upgrade_apply" /\ Settled
  /\ writer = None
  /\ LET k == IF op[p].ran = << >> THEN UpgradeFirst(op[p].db_version)
              ELSE op[p].next
     IN \E outcome \in { "ok", "fail_before", "fail_inside" } :
       /\ journal_mode' = IF k = 0 /\ outcome # "fail_before" THEN "wal"
                          ELSE journal_mode
       /\ IF outcome = "ok"
          THEN /\ tables' = TablesAt(k + 1)
               /\ user_version' = k + 1
               /\ IF k + 1 = NEWEST_DB_VERSION
                  THEN UpgradeExit(p, "Ok", op[p].db_version, Append(op[p].ran, k))
                  ELSE Goto(p, [ op[p] EXCEPT !.next = k + 1,
                                             !.ran = Append(op[p].ran, k) ],
                            "upgrade_apply")
          ELSE /\ UNCHANGED << tables, user_version >>
               /\ UpgradeExit(p, "Panic", op[p].db_version, op[p].ran)
  /\ UNCHANGED << backups, filesystems, mailed, now, workspaces, notifications,
                  volumes, writer, view, cursor >>

\* A database file as main() may find it: new (version 0, no table), left at
\* version 1 or 2 by an earlier release, or written by a later one
MaxVersion == NEWEST_DB_VERSION + 1
InitUpgrade ==
  /\ filesystems \in Configs
  /\ now \in SchedNow
  /\ user_version \in 0 .. MaxVersion
  /\ tables = TablesAt(user_version)
  /\ journal_mode = IF user_version = 0 THEN "delete" ELSE "wal"
  /\ backups = {}
  /\ workspaces \in IF user_version = 0 THEN { {} } ELSE SnapTables
  /\ notifications \in IF user_version < 2 \/ workspaces = {} THEN { << >> }
                       ELSE SchedLogs
  /\ volumes = [v \in Volumes |->
                  IF \E r \in workspaces : v = to_volume_string("tank", r.user, r.name)
                  THEN "rw" ELSE "absent"]
  /\ writer = None
  /\ pc = [p \in Procs |-> "idle"]
  /\ op = [p \in Procs |-> NoOp]
  /\ result = [p \in Procs |-> NoResult]
  /\ view = [p \in Procs |-> NoView]
  /\ cursor = [p \in Procs |-> 0]
  /\ mailed = [p \in Procs |-> {}]

\* main() up to the command dispatch, run again and again
Migrator(p) ==
  \/ Upgrade(p)
  \/ UpgradeBackup(p)
  \/ UpgradeApply(p)
  \/ Finish(p)

NextUpgrade == Tick \/ \E p \in SeqProcs : Migrator(p)
SpecUpgrade == InitUpgrade /\ [][NextUpgrade]_vars

\* the commands a second operator runs while the first runs any command
Lifecycle(p) ==
  \/ \E c \in Callers, f \in DOMAIN filesystems, u \in Users, n \in Names, d \in Durations :
       Create(p, c, f, u, n, d)
  \/ CreateZfs(p)
  \/ \E c \in Callers, f \in DOMAIN filesystems, u \in Users, n \in Names, b \in BOOLEAN :
       Expire(p, c, f, u, n, b)
  \/ ExpireZfs(p)
  \/ \E c \in Callers, f \in DOMAIN filesystems, u \in Users, n \in Names, d \in Durations :
       Extend(p, c, f, u, n, d)
  \/ ExtendZfs(p)
  \/ Finish(p)

\* the callers with get_current_uid() != 0
Unprivileged == { c \in Callers : c.uid # 0 }

\* the commands as unprivileged callers invoke them, and the timer's sweep
OwnerStep(p) ==
  \/ \E c \in Unprivileged, f \in DOMAIN filesystems, u \in Users, n \in Names,
        d \in Durations : Create(p, c, f, u, n, d)
  \/ CreateZfs(p)
  \/ \E c \in Unprivileged, f \in DOMAIN filesystems, u \in Users, n \in Names,
        b \in BOOLEAN : Expire(p, c, f, u, n, b)
  \/ ExpireZfs(p)
  \/ \E c \in Unprivileged, f \in DOMAIN filesystems, u \in Users, n \in Names,
        d \in Durations : Extend(p, c, f, u, n, d)
  \/ ExtendZfs(p)
  \/ \E c \in Unprivileged, f \in DOMAIN filesystems, u \in Users, s \in Names,
        d \in Names : Rename(p, c, f, u, s, d)
  \/ RenameZfs(p)
  \/ RenameCommit(p)
  \/ Sweep(p)

\* no invocation is made by root
NextOwner == Tick \/ \E p \in SeqProcs : OwnerStep(p)
SpecOwner == InitOpen /\ [][NextOwner]_vars

\* two invocations interleave step by step, on the open filesystem
NextConc == Tick \/ Step("p1") \/ Lifecycle("p2")
SpecConc == InitOpen /\ [][NextConc]_vars

\* ---------------------------------------------------------------- properties
\* the rows of `ws` stored under a triple
RowsOf(ws, f, u, n) ==
  { r \in ws : r.filesystem = f /\ r.user = u /\ r.name = n }

\* no two rows of `ws` share (filesystem, user, name)
UniqueTriple(ws) ==
  \A r1 \in ws, r2 \in ws :
    (r1.filesystem = r2.filesystem /\ r1.user = r2.user /\ r1.name = r2.name)
      => r1 = r2

\* the caller is neither the owner nor privileged
Unauthorised(c, u) == c.name # u /\ c.uid # 0

\* the invocation of p1 ends in this step with `code`, and neither the store
\* (committed or inside a transaction left open) nor any volume has changed
Refused(cmd, code) ==
  /\ pc'["p1"] = "done"
  /\ result'["p1"] = [cmd |-> cmd, code |-> code]
  /\ UNCHANGED << workspaces, notifications, volumes, writer, view >>

\* C1 (Uniqueness): in every reachable state, whatever the interleaving of
\* Create, Rename, Extend, Expire and the sweep of two processes, no two
\* workspace rows share a (filesystem, owner, name) triple -- neither among the
\* committed rows nor among the rows an open transaction is about to commit.
C1_Uniqueness ==
  /\ UniqueTriple(workspaces)
  /\ \A p \in Procs : UniqueTriple(view[p][1])

\* two invocations created concurrently: one has committed its row and still
\* runs, the other has met the constraint; two rows are live
C1_Witness ==
  /\ pc["p1"] = "create_zfs"
  /\ result["p2"] = [cmd |-> "create", code |-> "WorkspaceExists"]
  /\ Cardinality(workspaces) = 2

\* C2 (Expire never increases the expiration): when Expire acts on an existing
\* row x at instant now, the row stored afterwards has expiration
\* min(x.expiration, candidate) with candidate = now, or now - retention
\* when immediate; so it is <= x.expiration.
C2_ExpireMin ==
  [][ \A c \in Callers, f \in DOMAIN filesystems, u \in Users, n \in Names,
         b \in BOOLEAN :
        (pc'["p1"] = "expire_zfs" /\ Expire("p1", c, f, u, n, b)) =>
          \A x \in RowsOf(workspaces, f, u, n) :
            LET candidate == IF b THEN now - filesystems[f].expired_retention
                             ELSE now
            IN \E y \in workspaces' :
                 /\ y.id = x.id
                 /\ RowsOf(workspaces', f, u, n) = {y}
                 /\ y.expiration_time =
                      (IF x.expiration_time < candidate
                       THEN x.expiration_time ELSE candidate)
                 /\ y.expiration_time <= x.expiration_time ]_vars

\* an Expire has committed and left a row that is already past its expiration
C2_Witness ==
  /\ pc["p1"] = "expire_zfs"
  /\ \E x \in RowsOf(workspaces, op["p1"].filesystem_name, op["p1"].user,
                     op["p1"].name) : x.expiration_time < now

\* C3 (Extend never decreases the expiration): when Extend acts on an
\* existing row x with a duration at instant now, the row stored afterwards
\* has expiration max(x.expiration, now + duration); so it is >= x.expiration.
C3_ExtendMax ==
  [][ \A c \in Callers, f \in DOMAIN filesystems, u \in Users, n \in Names,
         d \in Durations :
        (pc'["p1"] = "extend_zfs" /\ Extend("p1", c, f, u, n, d)) =>
          \A x \in RowsOf(workspaces, f, u, n) :
            \E y \in workspaces' :
              /\ y.id = x.id
              /\ RowsOf(workspaces', f, u, n) = {y}
              /\ y.expiration_time =
                   (IF x.expiration_time > now + d
                    THEN x.expiration_time ELSE now + d)
              /\ y.expiration_time >= x.expiration_time ]_vars

\* an Extend has committed on a row that expires later than a day from now
C3_Witness ==
  /\ pc["p1"] = "extend_zfs"
  /\ \E x \in RowsOf(workspaces, op["p1"].filesystem_name, op["p1"].user,
                     op["p1"].name) : x.expiration_time > now + Day

\* C4 (Authorization): Create, Expire, Extend and Rename invoked by a caller
\* who is neither the owner nor privileged end with InsufficientPrivileges
\* and change neither workspace rows, nor the notification log, nor a volume.
C4_Authorization ==
  [][ \A c \in Callers, f \in DOMAIN filesystems, u \in Users, n \in Names :
        Unauthorised(c, u) =>
          /\ \A d \in Durations :
               Create("p1", c, f, u, n, d)
                 => Refused("create", "InsufficientPrivileges")
          /\ \A b \in BOOLEAN :
               Expire("p1", c, f, u, n, b)
                 => Refused("expire", "InsufficientPrivileges")
          /\ \A d \in Durations :
               Extend("p1", c, f, u, n, d)
                 => Refused("extend", "InsufficientPrivileges")
          /\ \A dest \in Names :
               Rename("p1", c, f, u, n, dest)
                 => Refused("rename", "InsufficientPrivileges") ]_vars

\* an invocation was refused for want of privileges while a workspace exists
C4_Witness ==
  /\ result["p1"].code = "InsufficientPrivileges"
  /\ workspaces # {}

\* C5 (Policy): a Create or Extend by an unprivileged caller who passes the
\* ownership check ends with FsDisabled or TooHighDuration exactly when the
\* filesystem is disabled or the duration is strictly greater than
\* max_duration (a duration equal to max_duration passes); a policy rejection
\* leaves store and volumes unchanged; uid 0 is never rejected by either check.
C5_Policy ==
  [][ \A c \in Callers, f \in DOMAIN filesystems, u \in Users, n \in Names,
         d \in Durations :
        LET violates == filesystems[f].disabled \/ d > filesystems[f].max_duration
            policy == IF filesystems[f].disabled THEN "FsDisabled"
                      ELSE "TooHighDuration"
            rejected == /\ pc'["p1"] = "done"
                        /\ result'["p1"].code \in {"FsDisabled", "TooHighDuration"}
        IN /\ (Create("p1", c, f, u, n, d) /\ c.uid # 0 /\ c.name = u) =>
                /\ rejected <=> violates
                /\ rejected => Refused("create", policy)
           /\ (Extend("p1", c, f, u, n, d) /\ c.uid # 0 /\ c.name = u) =>
                /\ rejected <=> violates
                /\ rejected => Refused("extend", policy)
           /\ ((Create("p1", c, f, u, n, d) \/ Extend("p1", c, f, u, n, d))
                 /\ c.uid = 0) => ~rejected ]_vars

\* the owner asked an existing workspace to be extended beyond max_duration
C5_Witness ==
  /\ result["p1"] = [cmd |-> "extend", code |-> "TooHighDuration"]
  /\ workspaces # {}

\* C6 (Create on an existing triple): a Create that passes its checks on a
\* triple that already has a row ends with WorkspaceExists: no row and no log
\* entry is inserted, the existing row keeps its expiration, and no volume is
\* provisioned.
C6_CreateExisting ==
  [][ \A c \in Callers, f \in DOMAIN filesystems, u \in Users, n \in Names,
         d \in Durations :
        ( /\ RowsOf(workspaces, f, u, n) # {}
          /\ CreateCheck(c, f, u, d) = "Ok"
          /\ Create("p1", c, f, u, n, d) )
        => Refused("create", "WorkspaceExists") ]_vars

\* a Create has met the row of an earlier Create
C6_Witness ==
  /\ result["p1"] = [cmd |-> "create", code |-> "WorkspaceExists"]
  /\ Cardinality(workspaces) = 1

\* C7 (Create round trip): once Create(filesystem, owner, name, duration) has
\* committed at instant now, the triple has exactly one row and its
\* expiration is now + duration.
C7_CreateRoundTrip ==
  [][ \A c \in Callers, f \in DOMAIN filesystems, u \in Users, n \in Names,
         d \in Durations :
        (pc'["p1"] = "create_zfs" /\ Create("p1", c, f, u, n, d)) =>
          /\ RowsOf(workspaces, f, u, n) = {}
          /\ \E y \in workspaces' :
               /\ RowsOf(workspaces', f, u, n) = {y}
               /\ y.expiration_time = now + d ]_vars

\* a Create by root has committed a row that lasts longer than max_duration
C7_Witness ==
  /\ pc["p1"] = "create_zfs"
  /\ \E y \in RowsOf(workspaces, op["p1"].filesystem_name, op["p1"].user,
                     op["p1"].name) :
       y.expiration_time = now + filesystems[y.filesystem].max_duration + Day

\* the log entries of workspace `id`, oldest first
EntriesOf(notes, id) == SelectSeq(notes, LAMBDA e : e.workspace_id = id)

\* the sweep of p1 sends a reminder for `row` in this step
Reminds(row) ==
  \/ \E m \in mailed'["p1"] \ mailed["p1"] : m.id = row.id
  \/ pc'["p1"] = "done" /\ \E m \in result'["p1"].mailed : m.id = row.id

\* C8 (Create logs the creation instant): Create commits, together with the
\* row, a log entry for the new row timestamped now; and whenever the sweep
\* sends a reminder for a row, the deadline of the threshold it reports lies
\* strictly after the row's first log entry, its creation instant -- so a
\* sweep at the creation instant sends nothing for the new row.
C8_CreationLogged ==
  [][ /\ \A c \in Callers, f \in DOMAIN filesystems, u \in Users, n \in Names,
            d \in Durations :
           (pc'["p1"] = "create_zfs" /\ Create("p1", c, f, u, n, d)) =>
             \E y \in workspaces' \ workspaces :
               notifications' =
                 Append(notifications, [workspace_id |-> y.id, timestamp |-> now])
      /\ (SweepRow("p1") /\ Reminds(SweepRowOf("p1"))) =>
           LET row == SweepRowOf("p1")
               entries == EntriesOf(view["p1"][2], row.id)
               passed == PassedDeadline(
                           filesystems[row.filesystem].expiry_notifications_on_days,
                           row.expiration_time - now)
           IN /\ entries # << >>
              /\ passed # << >>
              /\ entries[1].timestamp < row.expiration_time - passed[1]
              /\ entries[1].timestamp < now ]_vars

\* a sweep with mail configured has stepped over a row created at this very
\* instant, one of whose thresholds is already crossed, and sent nothing
C8_Witness ==
  /\ pc["p1"] = "sweep_rows"
  /\ op["p1"].smtp
  /\ mailed["p1"] = {}
  /\ \E row \in view["p1"][1] :
       /\ cursor["p1"] = row.id
       /\ EntriesOf(view["p1"][2], row.id) =
            << [workspace_id |-> row.id, timestamp |-> now] >>
       /\ PassedDeadline(filesystems[row.filesystem].expiry_notifications_on_days,
                         row.expiration_time - now) # << >>

\* C9 (Expire / Extend on a missing triple): an Expire or Extend that passes
\* its checks on a triple without a row ends with UnknownWorkspace: no row and
\* no log entry is inserted, updated or deleted, and no volume property is set.
C9_UnknownWorkspace ==
  [][ \A c \in Callers, f \in DOMAIN filesystems, u \in Users, n \in Names :
        RowsOf(workspaces, f, u, n) = {} =>
          /\ \A b \in BOOLEAN :
               (ExpireCheck(c, u) = "Ok" /\ Expire("p1", c, f, u, n, b))
                 => Refused("expire", "UnknownWorkspace")
          /\ \A d \in Durations :
               (ExtendCheck(c, f, u, d) = "Ok" /\ Extend("p1", c, f, u, n, d))
                 => Refused("extend", "UnknownWorkspace") ]_vars

\* an Extend has named a workspace that does not exist, beside one that does
C9_Witness ==
  /\ result["p1"] = [cmd |-> "extend", code |-> "UnknownWorkspace"]
  /\ workspaces # {}

\* C10 as stated (Rename onto an existing destination): a Rename that passes
\* its checks, with a row stored under (filesystem, owner, dest), ends with
\* WorkspaceExists, leaves every row and log entry as it was and renames no
\* volume.
C10_AsStated ==
  [][ \A c \in Callers, f \in DOMAIN filesystems, u \in Users, src \in Names,
         dest \in Names :
        ( /\ RowsOf(workspaces, f, u, dest) # {}
          /\ RenameCheck(c, f, u) = "Ok"
          /\ Rename("p1", c, f, u, src, dest) )
        => Refused("rename", "WorkspaceExists") ]_vars

\* C10 (Rename onto the row of another workspace): a Rename that passes its
\* checks, with a row stored under (filesystem, owner, src) and another row
\* under (filesystem, owner, dest), src # dest, ends with WorkspaceExists,
\* leaves both rows and their log entries as they were and renames no volume.
C10_RenameConflict ==
  [][ \A c \in Callers, f \in DOMAIN filesystems, u \in Users, src \in Names,
         dest \in Names :
        ( /\ src # dest
          /\ RowsOf(workspaces, f, u, src) # {}
          /\ RowsOf(workspaces, f, u, dest) # {}
          /\ RenameCheck(c, f, u) = "Ok"
          /\ Rename("p1", c, f, u, src, dest) )
        => Refused("rename", "WorkspaceExists") ]_vars

\* a Rename has met the row of the other workspace
C10_Witness ==
  /\ result["p1"] = [cmd |-> "rename", code |-> "WorkspaceExists"]
  /\ Cardinality(workspaces) = 2

\* the labels at which an invocation calls the zfs binary next
ZfsLabels == { "create_zfs", "expire_zfs", "extend_zfs", "rename_zfs" }

\* C11 as stated (commit before the side effect): whenever Create, Expire,
\* Extend or Rename is about to make its zfs call, its transaction is
\* committed: it holds no write lock and has no uncommitted rows.
C11_CommitFirst ==
  \A p \in Procs :
    pc[p] \in ZfsLabels => (writer # p /\ view[p] = NoView)

\* C12 as stated (a failed zfs call leaves the store change durable): when
\* the zfs call of Create, Expire, Extend or Rename fails, the invocation ends
\* as failed and the rows its transaction wrote are the committed ones: they
\* are in the store, no write lock and no uncommitted rows are dropped; for
\* Rename the row carries the destination name.
C12_DurableOnFailure ==
  [][ ( /\ pc["p1"] \in ZfsLabels
        /\ pc'["p1"] = "done"
        /\ result'["p1"].code # "Ok" )
      => /\ workspaces' = workspaces
         /\ notifications' = notifications
         /\ writer # "p1"
         /\ view["p1"] = NoView
         /\ (op["p1"].cmd = "rename" /\
               RowsOf(workspaces, op["p1"].filesystem_name, op["p1"].user,
                      op["p1"].name) # {} /\ op["p1"].name # op["p1"].dest_name)
              => RowsOf(workspaces', op["p1"].filesystem_name, op["p1"].user,
                        op["p1"].dest_name) # {} ]_vars

\* the log entries an Extend of workspace `id` at instant t has to keep
KeptByExtend(notes, id, t) ==
  SelectSeq(notes, LAMBDA e : e.workspace_id # id \/ e.timestamp <= t)

\* the Extend of p1 commits in this step on the row of (f, u, n)
ExtendCommits(c, f, u, n, d) ==
  pc'["p1"] = "extend_zfs" /\ Extend("p1", c, f, u, n, d)

\* C13 as stated (post-Extend): once Extend has committed at instant now, no
\* log entry of that workspace has a timestamp strictly greater than now, and
\* the entries of that workspace with timestamp <= now and all entries of
\* other workspaces are still there.
C13_AsStated ==
  [][ \A c \in Callers, f \in DOMAIN filesystems, u \in Users, n \in Names,
         d \in Durations :
        ExtendCommits(c, f, u, n, d) =>
          \A x \in RowsOf(workspaces, f, u, n) :
            LET old == KeptByExtend(notifications, x.id, now)
                new == KeptByExtend(notifications', x.id, now)
            IN /\ \A i \in DOMAIN notifications' :
                    notifications'[i].workspace_id = x.id
                      => notifications'[i].timestamp <= now
               /\ \/ new = old
                  \/ new = Append(old, [workspace_id |-> x.id, timestamp |-> now])
    ]_vars

\* C13 (post-Extend, at the granularity of the DELETE): once Extend has
\* committed at instant now, no log entry of that workspace has a timestamp in
\* a later whole second than now, and the entries of that workspace with
\* timestamp <= now and all entries of other workspaces are still there.
C13_NoLaterSecond ==
  [][ \A c \in Callers, f \in DOMAIN filesystems, u \in Users, n \in Names,
         d \in Durations :
        ExtendCommits(c, f, u, n, d) =>
          \A x \in RowsOf(workspaces, f, u, n) :
            LET old == KeptByExtend(notifications, x.id, now)
                new == KeptByExtend(notifications', x.id, now)
            IN /\ \A i \in DOMAIN notifications' :
                    notifications'[i].workspace_id = x.id
                      => unixepoch(notifications'[i].timestamp) <= unixepoch(now)
               /\ \/ new = old
                  \/ new = Append(old, [workspace_id |-> x.id, timestamp |-> now])
    ]_vars

\* an Extend has committed on the stored database on day 1: of the stored
\* entries only one half a second ahead of the clock is left
C13_Witness ==
  /\ pc["p1"] = "extend_zfs"
  /\ now = days(1)
  /\ notifications = << [workspace_id |-> 1, timestamp |-> days(1) + 1] >>

\* C14 as stated (Extend acknowledges for the unprivileged owner only): the
\* Extend that commits at instant now adds one log entry (workspace, now)
\* exactly when the caller is the owner and not uid 0; an Extend by uid 0
\* adds none, and the most recent log entry of the workspace is the same
\* before and after it.
C14_AsStated ==
  [][ \A c \in Callers, f \in DOMAIN filesystems, u \in Users, n \in Names,
         d \in Durations :
        ExtendCommits(c, f, u, n, d) =>
          \A x \in RowsOf(workspaces, f, u, n) :
            LET old == KeptByExtend(notifications, x.id, now)
                new == KeptByExtend(notifications', x.id, now)
                fresh == [workspace_id |-> x.id, timestamp |-> now]
            IN /\ (c.name = u /\ c.uid # 0) <=> new = Append(old, fresh)
               /\ ~(c.name = u /\ c.uid # 0) <=> new = old
               /\ c.uid = 0 =>
                    LastNotificationTime(notifications', x.id)
                      = LastNotificationTime(notifications, x.id) ]_vars

\* C14 (Extend acknowledges for the unprivileged owner only): the Extend that
\* commits at instant now adds one log entry (workspace, now) exactly when the
\* caller is the owner and not uid 0; an Extend by uid 0 adds none, and the
\* log entries with timestamp <= now, hence the most recent of them, are the
\* same before and after it.
C14_Acknowledge ==
  [][ \A c \in Callers, f \in DOMAIN filesystems, u \in Users, n \in Names,
         d \in Durations :
        ExtendCommits(c, f, u, n, d) =>
          \A x \in RowsOf(workspaces, f, u, n) :
            LET old == KeptByExtend(notifications, x.id, now)
                new == KeptByExtend(notifications', x.id, now)
                fresh == [workspace_id |-> x.id, timestamp |-> now]
            IN /\ (c.name = u /\ c.uid # 0) <=> new = Append(old, fresh)
               /\ ~(c.name = u /\ c.uid # 0) <=> new = old
               /\ c.uid = 0 =>
                    LastNotificationTime(new, x.id) = LastNotificationTime(old, x.id)
    ]_vars

\* an Extend by uid 0 has committed on day 1 and the log holds nothing but
\* the stored entry of day 0
C14_Witness ==
  /\ pc["p1"] = "extend_zfs"
  /\ now = days(1)
  /\ notifications = << [workspace_id |-> 1, timestamp |-> days(0)] >>

\* the offsets of the list that are strictly greater than `remaining`
Crossed(offsets, remaining) ==
  { offsets[i] : i \in { j \in DOMAIN offsets : offsets[j] > remaining } }

\* The decision as the scheduler's description has it: some offset is
\* strictly greater than remaining = expiration - t and, for the smallest
\* such offset o, there is no log entry or the most recent one is strictly
\* earlier than expiration - o
Fires(expiration, offsets, last, t) ==
  LET crossed == Crossed(offsets, expiration - t)
  IN /\ crossed # {}
     /\ LET o == CHOOSE x \in crossed : \A y \in crossed : x <= y
        IN last = << >> \/ last[1] < expiration - o

\* the sweep of p1 steps over its next row with mail configured and nothing
\* in the way of resolving the recipient or of sending
SweepNotifies(ok) ==
  pc["p1"] = "sweep_rows" /\ op["p1"].smtp /\ SweepRowEnv("p1", "ok", ok)

\* C15 (scheduler decision): when the sweep evaluates a row at instant now,
\* with mail configured and no failure around it, it sends a reminder if and
\* only if some offset is strictly greater than remaining = expiration - now
\* and, for the smallest such offset o, the row has no log entry or its most
\* recent log entry is strictly earlier than expiration - o; in particular
\* nothing is sent on account of an offset equal to remaining.
C15_Decision ==
  [][ \A ok \in BOOLEAN :
        SweepNotifies(ok) =>
          LET row == SweepRowOf("p1")
              offsets == filesystems[row.filesystem].expiry_notifications_on_days
              last == LastNotificationTime(view["p1"][2], row.id)
              remaining == row.expiration_time - now
          IN /\ Reminds(row) <=> Fires(row.expiration_time, offsets, last, now)
             /\ (Reminds(row) /\ last # << >>) =>
                  \E i \in DOMAIN offsets :
                    offsets[i] > remaining /\ last[1] < row.expiration_time - offsets[i]
             /\ (\A i \in DOMAIN offsets : offsets[i] <= remaining) => ~Reminds(row)
    ]_vars

\* a sweep with mail configured has stepped over a row that has no log
\* entry and whose remaining time equals the largest offset, and has sent
\* nothing
C15_Witness ==
  /\ pc["p1"] = "sweep_rows"
  /\ op["p1"].smtp
  /\ mailed["p1"] = {}
  /\ \E row \in view["p1"][1] :
       LET offsets == filesystems[row.filesystem].expiry_notifications_on_days
       IN /\ cursor["p1"] = row.id
          /\ EntriesOf(view["p1"][2], row.id) = << >>
          /\ offsets # << >>
          /\ offsets[Len(offsets)] = row.expiration_time - now

\* C16 (at most one reminder per crossed threshold): when the sweep sends a
\* reminder for a row at instant now and the row stays, the entry
\* (row, now) is the newest of the transaction's log, the decision taken
\* again at the same instant on that log is not to send, and the row had no
\* log entry timestamped now or later before -- so no sweep sends a second
\* reminder for a row it was reminded of at the same instant.
C16_AtMostOnce ==
  [][ \A env \in NotifyEnv, ok \in BOOLEAN :
        (/\ pc["p1"] = "sweep_rows"
         /\ SweepRowEnv("p1", env, ok)
         /\ Reminds(SweepRowOf("p1"))) =>
          LET row == SweepRowOf("p1")
              offsets == filesystems[row.filesystem].expiry_notifications_on_days
              before == view["p1"][2]
          IN /\ \A i \in DOMAIN before :
                  before[i].workspace_id = row.id => before[i].timestamp < now
             /\ (view'["p1"] # NoView /\ row \in view'["p1"][1]) =>
                  LET after == view'["p1"][2]
                  IN /\ after = Append(before, [workspace_id |-> row.id,
                                                timestamp |-> now])
                     /\ ~NotifyNecessary(row.expiration_time, offsets,
                                         LastNotificationTime(after, row.id), now)
                     /\ ~Fires(row.expiration_time, offsets, << now >>, now)
    ]_vars

\* a sweep has stepped over a row, sent nothing, and the newest log entry of
\* the row is one a sweep wrote at this very instant while an older entry
\* precedes it: the second evaluation at the instant of a reminder
C16_Witness ==
  /\ pc["p1"] = "sweep_rows"
  /\ op["p1"].smtp
  /\ mailed["p1"] = {}
  /\ \E row \in view["p1"][1] :
       /\ cursor["p1"] = row.id
       /\ Len(EntriesOf(view["p1"][2], row.id)) = 2
       /\ EntriesOf(view["p1"][2], row.id)[1].timestamp < now
       /\ EntriesOf(view["p1"][2], row.id)[2].timestamp = now
       /\ PassedDeadline(filesystems[row.filesystem].expiry_notifications_on_days,
                         row.expiration_time - now) # << >>

\* the subjects of the reminders the sweep of p1 sends for `row` in this step
Reported(row) ==
  { m.subject : m \in { x \in (mailed'["p1"] \ mailed["p1"]) : x.id = row.id } }
    \cup IF pc'["p1"] = "done"
         THEN { m.subject : m \in { x \in result'["p1"].mailed : x.id = row.id } }
         ELSE {}

\* C17 as stated (message kind on firing): a reminder sent at instant now
\* for a row with remaining = expiration - now >= 0, zero included, reports
\* the days until expiry, remaining in whole days; one sent with
\* remaining < 0 reports the days until permanent deletion, the whole days
\* of retention window - (now - expiration).
C17_AsStated ==
  [][ \A env \in NotifyEnv, ok \in BOOLEAN :
        (/\ pc["p1"] = "sweep_rows"
         /\ SweepRowEnv("p1", env, ok)
         /\ Reminds(SweepRowOf("p1"))) =>
          LET row == SweepRowOf("p1")
              retention == filesystems[row.filesystem].expired_retention
              remaining == row.expiration_time - now
          IN Reported(row) =
               { IF remaining >= 0
                 THEN [ kind |-> "expire", days |-> num_days(remaining) ]
                 ELSE [ kind |-> "delete",
                        days |-> num_days(retention - (now - row.expiration_time)) ] }
    ]_vars

\* C17 as the sweep behaves: the reminder reports the days until expiry only
\* when remaining > 0; at remaining = 0, as for remaining < 0, it reports the
\* days until permanent deletion.
C17_StrictlyPositive ==
  [][ \A env \in NotifyEnv, ok \in BOOLEAN :
        (/\ pc["p1"] = "sweep_rows"
         /\ SweepRowEnv("p1", env, ok)
         /\ Reminds(SweepRowOf("p1"))) =>
          LET row == SweepRowOf("p1")
              retention == filesystems[row.filesystem].expired_retention
              remaining == row.expiration_time - now
          IN Reported(row) =
               { IF remaining > 0
                 THEN [ kind |-> "expire", days |-> num_days(remaining) ]
                 ELSE [ kind |-> "delete",
                        days |-> num_days(retention - (now - row.expiration_time)) ] }
    ]_vars

\* a sweep has sent, for a row that expires at this very instant, a
\* reminder that speaks of deletion
C17_Witness ==
  /\ pc["p1"] = "sweep_rows"
  /\ \E row \in view["p1"][1] :
       /\ cursor["p1"] = row.id
       /\ row.expiration_time = now
       /\ \E m \in mailed["p1"] : m.id = row.id /\ m.subject.kind = "delete"

\* the step of the sweep of p1 does not end the sweep by a panic and, the
\* zfs call of the iteration permitting, leaves it at the next row
SweepGoesOn(ok) ==
  /\ ~(pc'["p1"] = "done" /\ result'["p1"].code = "Panic")
  /\ ok => (pc'["p1"] = "sweep_rows" /\ cursor'["p1"] = SweepRowOf("p1").id)

\* C18 as stated (recoverable notification failures): when resolving the
\* recipient of a row fails during a sweep with mail configured -- the owner
\* is not a known user, or the owner's contact file cannot be read or
\* parsed -- the sweep does not abort on it and goes on to the next row.
C18_AsStated ==
  [][ \A env \in { "user_not_found", "user_config_error" }, ok \in BOOLEAN :
        (/\ pc["p1"] = "sweep_rows"
         /\ op["p1"].smtp
         /\ SweepRowEnv("p1", env, ok)) => SweepGoesOn(ok) ]_vars

\* C18 as the sweep behaves: an unreadable or unparsable contact file of the
\* owner, or an unparsable sender address, does not abort the sweep, which
\* goes on to the next row.
C18_ContactFile ==
  [][ \A env \in { "user_config_error", "mailbox_error" }, ok \in BOOLEAN :
        (/\ pc["p1"] = "sweep_rows"
         /\ op["p1"].smtp
         /\ SweepRowEnv("p1", env, ok)) => SweepGoesOn(ok) ]_vars

\* a sweep with mail configured has ended by a panic without having sent or
\* having tried to send anything, and nothing it did is committed
C18_Witness ==
  /\ pc["p1"] = "done"
  /\ result["p1"].cmd = "maintain"
  /\ result["p1"].code = "Panic"
  /\ result["p1"].mailed = {}
  /\ workspaces # {}

\* C19 (a failure to send is fatal to the sweep): when the sweep decides to
\* remind the owner of a row and the mailer fails to send, the sweep ends
\* by a panic in that step, its transaction is rolled back, and the stored
\* rows and log are what they were before the sweep wrote anything: no log
\* entry the sweep made, for this row or for an earlier one, is committed.
C19_SendFatal ==
  [][ \A ok \in BOOLEAN :
        (/\ pc["p1"] = "sweep_rows"
         /\ op["p1"].smtp
         /\ SweepRowEnv("p1", "send_error", ok)
         /\ LET row == SweepRowOf("p1")
            IN NotifyNecessary(row.expiration_time,
                 filesystems[row.filesystem].expiry_notifications_on_days,
                 LastNotificationTime(view["p1"][2], row.id), now)) =>
          /\ pc'["p1"] = "done"
          /\ result'["p1"].code = "Panic"
          /\ result'["p1"].mailed = mailed["p1"]
          /\ view'["p1"] = NoView
          /\ writer' # "p1"
          /\ notifications' = notifications
          /\ workspaces' = workspaces ]_vars

\* a sweep has ended by a panic after it had sent a reminder for an earlier
\* row, and the log in the database is still empty
C19_Witness ==
  /\ pc["p1"] = "done"
  /\ result["p1"].cmd = "maintain"
  /\ result["p1"].code = "Panic"
  /\ result["p1"].mailed # {}
  /\ Cardinality(workspaces) = 2
  /\ notifications = << >>
  /\ writer = None

\* instant t lies strictly after the retention boundary of the row
BeyondBoundary(row, t) ==
  t > row.expiration_time + filesystems[row.filesystem].expired_retention

\* the stored rows whose volume is v
RowsOnVolume(ws, v) ==
  { r \in ws : to_volume_string(filesystems[r.filesystem].root, r.user, r.name) = v }

\* C20 (the sweep reclaims only past the retention boundary):
\* whenever a step of the sweep destroys a volume, every stored row of that
\* volume has now > expiration + retention window, and every row the sweep
\* removes from the store has now > expiration + retention window; a row at
\* or before its boundary keeps its volume and stays.
C20_PastRetentionOnly ==
  [][ /\ (pc["p1"] = "sweep_rows" /\ SweepRow("p1")) =>
           \A v \in Volumes :
             (volumes[v] # "absent" /\ volumes'[v] = "absent") =>
               \A r \in RowsOnVolume(workspaces, v) : BeyondBoundary(r, now)
      /\ (pc["p1"] = "sweep_rows" /\ SweepCommit("p1")) =>
           \A r \in workspaces \ workspaces' : BeyondBoundary(r, now) ]_vars

\* a sweep has stepped over a row that stands exactly at its retention
\* boundary: the row is still there and its volume exists, read-only
C20_Witness ==
  /\ pc["p1"] = "sweep_rows"
  /\ \E row \in view["p1"][1] :
       /\ cursor["p1"] = row.id
       /\ now = row.expiration_time + filesystems[row.filesystem].expired_retention
       /\ volumes[to_volume_string(filesystems[row.filesystem].root, row.user,
                                   row.name)] = "ro"

\* the sweep of p1 steps over a row past its retention boundary, the destroy
\* call fails, and the sweep goes on
DestroyFails(env) ==
  /\ pc["p1"] = "sweep_rows"
  /\ SweepPending("p1") # {}
  /\ PastRetention(SweepRowOf("p1"), now)
  /\ SweepRowEnv("p1", env, FALSE)
  /\ pc'["p1"] = "sweep_rows"

\* C21 as stated (a failed destroy leaves the workspace as it was): when the
\* destroy call for a row past its retention boundary fails, the sweep's
\* transaction holds after the iteration the same row and the same log
\* entries of that row as before it, and no other iteration touches them.
C21_AsStated ==
  [][ \A env \in NotifyEnv :
        DestroyFails(env) =>
          LET row == SweepRowOf("p1")
          IN /\ view'["p1"][1] = view["p1"][1]
             /\ EntriesOf(view'["p1"][2], row.id) = EntriesOf(view["p1"][2], row.id)
    ]_vars

\* C21 as the sweep behaves: when the destroy call fails the row is kept and
\* so is every log entry it had; the log of the row is the same unless a
\* reminder for the row was sent in the same iteration, in which case the
\* entry (row, now) has been appended to it.
C21_RowKept ==
  [][ \A env \in NotifyEnv :
        DestroyFails(env) =>
          LET row == SweepRowOf("p1")
              before == EntriesOf(view["p1"][2], row.id)
              after == EntriesOf(view'["p1"][2], row.id)
          IN /\ view'["p1"][1] = view["p1"][1]
             /\ volumes' = volumes
             /\ IF Reminds(row)
                THEN after = Append(before, [workspace_id |-> row.id,
                                             timestamp |-> now])
                ELSE after = before
             /\ ~op["p1"].smtp => after = before ]_vars

\* a sweep has sent a reminder for a row past its retention boundary and
\* gone on with the row still there, its volume too, and the new log entry
C21_Witness ==
  /\ pc["p1"] = "sweep_rows"
  /\ \E row \in view["p1"][1] :
       /\ cursor["p1"] = row.id
       /\ PastRetention(row, now)
       /\ \E m \in mailed["p1"] : m.id = row.id
       /\ volumes[to_volume_string(filesystems[row.filesystem].root, row.user,
                                   row.name)] # "absent"
       /\ [workspace_id |-> row.id, timestamp |-> now] \in
            { view["p1"][2][i] : i \in DOMAIN view["p1"][2] }
       /\ [workspace_id |-> row.id, timestamp |-> now] \notin
            { notifications[i] : i \in DOMAIN notifications }

\* the row is expired at instant t and not yet past its retention boundary
InRetention(row, t) ==
  /\ row.expiration_time < t
  /\ t <= row.expiration_time + filesystems[row.filesystem].expired_retention

\* C22 (the sweep marks expired workspaces read-only): when the sweep, at
\* instant now, steps over a row with expiration < now <= expiration +
\* retention window, then either the sweep goes on, and then the row is
\* kept and its volume is read-only whatever it was before, or the marking
\* failed and the sweep ends with an error: no sweep ends successfully
\* having passed such a row without its volume being read-only.
C22_ReadOnly ==
  [][ \A env \in NotifyEnv, ok \in BOOLEAN :
        (/\ pc["p1"] = "sweep_rows"
         /\ SweepPending("p1") # {}
         /\ InRetention(SweepRowOf("p1"), now)
         /\ SweepRowEnv("p1", env, ok)) =>
          LET row == SweepRowOf("p1")
              v == to_volume_string(filesystems[row.filesystem].root, row.user,
                                    row.name)
          IN IF pc'["p1"] = "sweep_rows"
             THEN /\ ok
                  /\ volumes[v] \in { "rw", "ro" }
                  /\ volumes' = [volumes EXCEPT ![v] = "ro"]
                  /\ row \in view'["p1"][1]
                  /\ workspaces' = workspaces
             ELSE /\ pc'["p1"] = "done"
                  /\ result'["p1"].code # "Ok"
                  /\ volumes' = volumes ]_vars

\* a sweep has ended successfully and a row that expired less than the
\* retention window ago is in the store, its volume read-only
C22_Witness ==
  /\ pc["p1"] = "done"
  /\ result["p1"].cmd = "maintain"
  /\ result["p1"].code = "Ok"
  /\ \E row \in workspaces :
       /\ InRetention(row, now)
       /\ row.expiration_time > 0
       /\ volumes[to_volume_string(filesystems[row.filesystem].root, row.user,
                                   row.name)] = "ro"

\* the filesystems flagged for periodic snapshots
Flagged == { f \in DOMAIN filesystems : filesystems[f].snapshot }

\* C23 as stated (one snapshot request per flagged filesystem): the sweep,
\* once its transaction is committed, requests a snapshot of every
\* filesystem flagged for snapshots and of no other, whatever rows there
\* are and whether or not the request for another filesystem failed.
C23_AsStated ==
  [][ (pc["p1"] = "sweep_snapshot" /\ SweepSnapshot("p1")) =>
        /\ view["p1"] = NoView /\ writer # "p1"
        /\ result'["p1"].snapshots = Flagged ]_vars

\* C23 as the sweep behaves: the requests are made after the commit, for
\* flagged filesystems only, one after the other until one fails; all
\* flagged filesystems are requested exactly when the sweep ends
\* successfully, and a failed request leaves the filesystems that follow
\* in the map's order without a request.
C23_UntilFailure ==
  [][ (pc["p1"] = "sweep_snapshot" /\ SweepSnapshot("p1")) =>
        /\ view["p1"] = NoView /\ writer # "p1"
        /\ result'["p1"].snapshots \subseteq Flagged
        /\ result'["p1"].code = "Ok" => result'["p1"].snapshots = Flagged
        /\ result'["p1"].code # "Ok" => result'["p1"].snapshots # {}
        /\ workspaces' = workspaces /\ volumes' = volumes ]_vars

\* a sweep over two flagged filesystems has ended with an error after a
\* single snapshot request
C23_Witness ==
  /\ pc["p1"] = "done"
  /\ result["p1"].cmd = "maintain"
  /\ result["p1"].code = "Err"
  /\ Cardinality(Flagged) = 2
  /\ Cardinality(result["p1"].snapshots) = 1

\* C24 (a database from a newer release is refused): when the migrator finds
\* a stored version greater than the newest it knows, it ends at once by a
\* panic, having run no migration, and the version, the tables, the journal
\* mode, the rows and the set of backup files are what they were.
C24_NewerVersion ==
  [][ (/\ pc["p1"] = "idle"
       /\ user_version > NEWEST_DB_VERSION
       /\ Upgrade("p1")) =>
        /\ pc'["p1"] = "done"
        /\ result'["p1"].code = "Panic"
        /\ result'["p1"].ran = << >>
        /\ UNCHANGED << schema, store >> ]_vars

\* the migrator has refused a database of a version it does not know, and
\* there is no backup file
C24_Witness ==
  /\ pc["p1"] = "done"
  /\ result["p1"].cmd = "upgrade"
  /\ result["p1"].code = "Panic"
  /\ user_version = MaxVersion
  /\ backups = {}

\* C25 (migration is idempotent): when the migrator finds the stored
\* version equal to the newest, it ends at once with success, having run no
\* migration and written nothing: version, tables, journal mode, rows and
\* backup files are what they were. Every successful upgrade ends at the
\* newest version, so a second run after it changes nothing.
C25_Idempotent ==
  [][ /\ (/\ pc["p1"] = "idle"
          /\ user_version = NEWEST_DB_VERSION
          /\ Upgrade("p1")) =>
           /\ pc'["p1"] = "done"
           /\ result'["p1"].code = "Ok"
           /\ result'["p1"].ran = << >>
           /\ UNCHANGED << schema, store >>
      /\ (pc'["p1"] = "done" /\ pc["p1"] # "done"
          /\ result'["p1"].cmd = "upgrade" /\ result'["p1"].code = "Ok") =>
           user_version' = NEWEST_DB_VERSION ]_vars

\* the migrator has run again on a database that an earlier run had
\* upgraded, and has ended with success without running a migration or
\* writing a second backup
C25_Witness ==
  /\ pc["p1"] = "done"
  /\ result["p1"].cmd = "upgrade"
  /\ result["p1"].code = "Ok"
  /\ result["p1"].ran = << >>
  /\ Cardinality(backups) = 1
  /\ \A b \in backups : b.complete /\ b.user_version < NEWEST_DB_VERSION

\* a complete backup file holds the database as the migrator of p1 found it
BackedUp ==
  \E b \in backups :
    /\ b.complete
    /\ b.at <= unixepoch(now)
    /\ b.user_version = op["p1"].db_version
    /\ b.tables = TablesAt(op["p1"].db_version)
    /\ b.workspaces = workspaces
    /\ b.notifications = notifications

\* C26 (backup before migrating): when the stored version is below the
\* newest, the migrator writes nothing before its backup step; every
\* migration it runs finds a complete backup file holding the database as it
\* was at version V; and when the backup step fails the migrator ends with
\* an error, no migration run, the version still V and tables and rows as
\* they were.
C26_BackupFirst ==
  [][ /\ (/\ pc["p1"] = "idle"
          /\ user_version < NEWEST_DB_VERSION
          /\ Upgrade("p1")) =>
           /\ pc'["p1"] = "upgrade_backup"
           /\ UNCHANGED << schema, store >>
      /\ (pc["p1"] = "upgrade_apply" /\ UpgradeApply("p1")) => BackedUp
      /\ (/\ pc["p1"] = "upgrade_backup"
          /\ UpgradeBackup("p1")) =>
           /\ UNCHANGED << user_version, tables, journal_mode, store >>
           /\ user_version = op["p1"].db_version
           /\ IF pc'["p1"] = "upgrade_apply"
              THEN BackupCopy(TRUE) \in backups'
              ELSE /\ pc'["p1"] = "done"
                   /\ result'["p1"].code = "Err"
                   /\ result'["p1"].ran = << >>
                   /\ \A b \in backups' \ backups : ~b.complete ]_vars

\* the first migration of an upgrade has been committed and a complete
\* backup file holds the database of the version before
C26_Witness ==
  /\ pc["p1"] \in { "upgrade_apply", "done" }
  /\ user_version = 1
  /\ journal_mode = "wal"
  /\ \E b \in backups : b.complete /\ b.user_version = 0 /\ b.tables = {}

\* the migrations V, V+1, ..., NEWEST_DB_VERSION - 1, in this order
Pending(v) == [ i \in 1 .. (NEWEST_DB_VERSION - v) |-> v + i - 1 ]

\* C27 (migrations run in order, each with its version number): for a
\* stored version V below the newest, every migration that commits is the
\* one whose index k equals the stored version, it finds the tables of
\* version k and commits the tables of version k + 1 together with
\* version = k + 1; and an upgrade that ends successfully has committed
\* exactly the migrations V, V+1, ..., N-1, once each in this order, and
\* leaves the stored version at N.
C27_InOrder ==
  [][ (pc["p1"] = "upgrade_apply" /\ UpgradeApply("p1")) =>
        /\ user_version' # user_version =>
             /\ user_version' = user_version + 1
             /\ tables = TablesAt(user_version)
             /\ tables' = TablesAt(user_version')
             /\ store' = store
             /\ IF pc'["p1"] = "done"
                THEN result'["p1"].ran = Append(op["p1"].ran, user_version)
                ELSE op'["p1"].ran = Append(op["p1"].ran, user_version)
        /\ user_version' = user_version =>
             /\ tables' = tables
             /\ pc'["p1"] = "done" /\ result'["p1"].code = "Panic"
             /\ result'["p1"].ran = op["p1"].ran
        /\ (pc'["p1"] = "done" /\ result'["p1"].code = "Ok") =>
             /\ op["p1"].db_version < NEWEST_DB_VERSION
             /\ result'["p1"].ran = Pending(op["p1"].db_version)
             /\ user_version' = NEWEST_DB_VERSION
             /\ tables' = TablesAt(NEWEST_DB_VERSION) ]_vars

\* an upgrade of a database of version 0 that holds no table has ended
\* successfully after migrations 0 and 1
C27_Witness ==
  /\ pc["p1"] = "done"
  /\ result["p1"].cmd = "upgrade"
  /\ result["p1"].code = "Ok"
  /\ result["p1"].db_version = 0
  /\ result["p1"].ran = << 0, 1 >>
  /\ user_version = NEWEST_DB_VERSION

\* a migration of the upgrade of p1 fails in this step
MigrationFails ==
  /\ pc["p1"] = "upgrade_apply"
  /\ UpgradeApply("p1")
  /\ pc'["p1"] = "done"
  /\ result'["p1"].code # "Ok"

\* C28 as stated (a failed migration leaves the earlier ones applied): when
\* migration k fails the upgrade ends there with the migrations before k
\* committed, the stored version is k, and nothing the failed migration did
\* is visible: tables, rows, journal mode and version are as before it; and
\* no step ever lowers the stored version.
C28_AsStated ==
  [][ /\ MigrationFails =>
           /\ result'["p1"].ran = op["p1"].ran
           /\ user_version' = op["p1"].db_version + Len(op["p1"].ran)
           /\ UNCHANGED << user_version, tables, store, journal_mode >>
      /\ user_version' >= user_version ]_vars

\* C28 (a failed migration leaves the earlier ones applied): when migration
\* k fails the upgrade ends there with the migrations before k committed,
\* the stored version is k, and tables, rows and version are as before the
\* failed migration; of what it did only the journal mode, which migration 0
\* sets to WAL before it opens its transaction, may stay; and no step ever
\* lowers the stored version.
C28_FailedMigration ==
  [][ /\ MigrationFails =>
           /\ result'["p1"].ran = op["p1"].ran
           /\ user_version' = op["p1"].db_version + Len(op["p1"].ran)
           /\ tables' = TablesAt(user_version')
           /\ UNCHANGED << user_version, tables, store >>
           /\ journal_mode' # journal_mode =>
                (user_version = 0 /\ journal_mode' = "wal")
      /\ user_version' >= user_version ]_vars

\* an upgrade from version 0 has ended by a panic in migration 1: migration
\* 0 stays applied and the stored version is 1
C28_Witness ==
  /\ pc["p1"] = "done"
  /\ result["p1"].cmd = "upgrade"
  /\ result["p1"].code = "Panic"
  /\ result["p1"].db_version = 0
  /\ result["p1"].ran = << 0 >>
  /\ user_version = 1
  /\ tables = TablesAt(1)

\* an Expire with delete_on_next_clean commits at instant now
ExpiresAtOnce(c, f, u, n) ==
  pc'["p1"] = "expire_zfs" /\ Expire("p1", c, f, u, n, TRUE)

\* the sweep of p1 steps over a row that is past its retention boundary
SweepsPast(env, ok) ==
  /\ pc["p1"] = "sweep_rows"
  /\ SweepPending("p1") # {}
  /\ BeyondBoundary(SweepRowOf("p1"), now)
  /\ SweepRowEnv("p1", env, ok)

\* the rows the open transaction of the sweep of p1 has deleted
SweepDeleted == workspaces \ view["p1"][1]

\* the immediate Expire and the sweep's iteration, as C29 and its amended
\* form both have them: the Expire leaves the row with expiration <= now -
\* retention window, so that it is past its retention boundary at every
\* later instant; the sweep's iteration over a row past its boundary, when
\* the destroy call succeeds, destroys the volume and deletes the row in
\* the sweep's transaction, and the commit removes from the store the rows
\* deleted in the transaction
ForcedCleanup ==
  /\ \A c \in Callers, f \in DOMAIN filesystems, u \in Users, n \in Names :
       ExpiresAtOnce(c, f, u, n) =>
         /\ RowsOf(workspaces', f, u, n) # {}
         /\ \A r \in RowsOf(workspaces', f, u, n) :
              /\ r.expiration_time <= now - filesystems[f].expired_retention
              /\ BeyondBoundary(r, now + 1)
  /\ \A env \in NotifyEnv :
       SweepsPast(env, TRUE) =>
         LET row == SweepRowOf("p1")
             v == to_volume_string(filesystems[row.filesystem].root, row.user,
                                   row.name)
         IN IF pc'["p1"] = "sweep_rows"
            THEN /\ volumes[v] # "absent" /\ volumes'[v] = "absent"
                 /\ row \notin view'["p1"][1]
                 /\ SweepDeleted' = SweepDeleted \cup { row }
            ELSE result'["p1"].code = "Panic" /\ volumes' = volumes
  /\ (pc["p1"] = "sweep_rows" /\ SweepCommit("p1")) =>
       workspaces' = workspaces \ SweepDeleted

\* C29 as stated (an immediate Expire forces the cleanup): after an immediate
\* Expire at instant t, a sweep at a later instant in which the destroy call
\* for the row succeeds destroys the volume and removes the row from the
\* store, however the sweep ends.
C29_AsStated ==
  [][ /\ ForcedCleanup
      /\ (pc["p1"] = "sweep_rows" /\ pc'["p1"] # "sweep_rows"
          /\ (SweepRow("p1") \/ SweepCommit("p1"))) =>
           \A r \in SweepDeleted : r \notin workspaces' ]_vars

\* C29 (an immediate Expire forces the cleanup): after an immediate Expire
\* at instant t, a sweep at a later instant in which the destroy call for
\* the row succeeds destroys the volume and deletes the row in its
\* transaction, and the row is removed from the store when that sweep
\* commits; a sweep that is aborted after the destroy call leaves the store
\* as it was.
C29_ForcedCleanup ==
  [][ /\ ForcedCleanup
      /\ (pc["p1"] = "sweep_rows" /\ pc'["p1"] = "done"
          /\ SweepRow("p1")) => workspaces' = workspaces ]_vars

\* on day 1 a sweep has destroyed the volume of a row and deleted the row in
\* its transaction: the row was expired at once on day 0
C29_Witness ==
  /\ pc["p1"] = "sweep_rows"
  /\ now = days(1)
  /\ \E r \in SweepDeleted :
       /\ r.id <= cursor["p1"]
       /\ r.expiration_time = days(0) - filesystems[r.filesystem].expired_retention
       /\ volumes[to_volume_string(filesystems[r.filesystem].root, r.user, r.name)]
            = "absent"


\* the volume of a stored row
VolumeOf(r) == to_volume_string(filesystems[r.filesystem].root, r.user, r.name)

\* the rows whose store change is committed while the volume was never
\* provisioned
Unprovisioned == { r \in workspaces : volumes[VolumeOf(r)] = "absent" }

\* a retry of Create for a stored workspace has ended
CreateRetried ==
  /\ pc["p1"] = "done"
  /\ result["p1"].cmd = "create"
  /\ result["p1"].code = "WorkspaceExists"

\* a sweep has ended without an error
SweepDone ==
  /\ pc["p1"] = "done"
  /\ result["p1"].cmd = "maintain"
  /\ result["p1"].code = "Ok"

\* C30 as stated (reconciliation after a failed side effect): once a retry of
\* Create has ended, or a sweep has ended without an error, the volume of
\* every workspace that is stored and not yet expired exists.
C30_AsStated ==
  (CreateRetried \/ SweepDone) =>
    \A r \in workspaces : ~Expired(r, now) => r \notin Unprovisioned

\* C30 (what is reconciled and what is not): a stored row whose volume is
\* absent while no Create or Rename is between its commit and its zfs call
\* keeps an absent volume as long as it is stored, whatever is run (a retry of Create ends with WorkspaceExists and
\* touches nothing, a sweep never creates a volume); the read-only marking
\* that an Expire left out is made up for by a retry of the Expire whose
\* zfs call succeeds, and by a sweep that steps over the row inside its
\* retention window and goes on.
C30_Reconciled ==
  [][ /\ pc["p1"] \notin { "create_zfs", "rename_commit" } =>
           \A r \in Unprovisioned : \A r2 \in workspaces' :
             r2.id = r.id => volumes'[VolumeOf(r2)] = "absent"
      /\ \A c \in Callers, f \in DOMAIN filesystems, u \in Users, n \in Names,
            d \in Durations :
           (pc["p1"] = "idle" /\ Matching(workspaces, f, u, n) # {}
            /\ Create("p1", c, f, u, n, d)) =>
             /\ pc'["p1"] = "done"
             /\ result'["p1"].code # "Ok"
             /\ volumes' = volumes /\ workspaces' = workspaces
      /\ (pc["p1"] = "expire_zfs" /\ ExpireZfs("p1")) =>
           \/ result'["p1"].code = "Ok" /\ volumes'[Volume(op["p1"])] = "ro"
           \/ result'["p1"].code = "Panic" /\ volumes' = volumes
      /\ \A env \in NotifyEnv, ok \in BOOLEAN :
           (/\ pc["p1"] = "sweep_rows"
            /\ SweepPending("p1") # {}
            /\ InRetention(SweepRowOf("p1"), now)
            /\ SweepRowEnv("p1", env, ok)
            /\ pc'["p1"] = "sweep_rows") =>
             volumes'[VolumeOf(SweepRowOf("p1"))] = "ro" ]_vars

\* a workspace is stored and not expired, its volume is absent, and a retry
\* of its Create has just ended with WorkspaceExists
C30_Witness ==
  /\ CreateRetried
  /\ \E r \in Unprovisioned : ~Expired(r, now)

\* p2 has committed the transaction of `cmd` on (f, u, n) and has not yet
\* made its zfs call
CommittedFirst(cmd, f, u, n) ==
  /\ pc["p2"] = IF cmd = "extend" THEN "extend_zfs" ELSE "expire_zfs"
  /\ op["p2"].filesystem_name = f /\ op["p2"].user = u /\ op["p2"].name = n

\* C31 (a concurrent Extend and Expire resolve by last commit wins): when
\* the Extend of one invocation commits while an Expire of another on the
\* same workspace has committed and is still running, the stored expiration
\* becomes the maximum of what the Expire left and now + duration, so it is
\* >= now + duration; when an Expire commits while such an Extend is still
\* running, the stored expiration becomes the minimum of what the Extend
\* left and the Expire's candidate, so it is <= the candidate.
C31_LastCommitWins ==
  [][ \A c \in Callers, f \in DOMAIN filesystems, u \in Users, n \in Names :
        /\ \A d \in Durations :
             (/\ pc["p1"] = "idle"
              /\ CommittedFirst("expire", f, u, n)
              /\ Extend("p1", c, f, u, n, d)
              /\ pc'["p1"] = "extend_zfs") =>
               /\ RowsOf(workspaces', f, u, n) # {}
               /\ \A r2 \in RowsOf(workspaces', f, u, n) :
                    /\ r2.expiration_time >= now + d
                    /\ \E r \in RowsOf(workspaces, f, u, n) :
                         /\ r2.id = r.id
                         /\ r2.expiration_time = Max(r.expiration_time, now + d)
        /\ \A b \in BOOLEAN :
             (/\ pc["p1"] = "idle"
              /\ CommittedFirst("extend", f, u, n)
              /\ Expire("p1", c, f, u, n, b)
              /\ pc'["p1"] = "expire_zfs") =>
               /\ RowsOf(workspaces', f, u, n) # {}
               /\ \A r2 \in RowsOf(workspaces', f, u, n) :
                    /\ r2.expiration_time <= ExpireCandidate(f, b, now)
                    /\ \E r \in RowsOf(workspaces, f, u, n) :
                         /\ r2.id = r.id
                         /\ r2.expiration_time =
                              Min(r.expiration_time, ExpireCandidate(f, b, now)) ]_vars

\* both transactions are committed and both invocations are before their
\* zfs call; the Extend came last, the workspace is not expired
C31_Witness ==
  /\ pc["p1"] = "extend_zfs" /\ pc["p2"] = "expire_zfs"
  /\ Volume(op["p1"]) = Volume(op["p2"])
  /\ \E r \in RowsOf(workspaces, op["p1"].filesystem_name, op["p1"].user,
                     op["p1"].name) : r.expiration_time > now

\* a Rename by a caller who passes the checks, for a source name under
\* which no row is stored, while no other invocation holds the write lock
RenameOfNone(c, f, u, src, dest) ==
  /\ pc["p1"] = "idle"
  /\ RenameCheck(c, f, u) = "Ok"
  /\ writer = None
  /\ Matching(workspaces, f, u, src) = {}
  /\ Rename("p1", c, f, u, src, dest)

\* C33 as stated (Rename of a workspace that does not exist): the Rename
\* stops with the signal for an unknown workspace, the store is unchanged
\* and no rename of a volume is attempted.
C33_AsStated ==
  [][ \A c \in Callers, f \in DOMAIN filesystems, u \in Users, src \in Names,
         dest \in Names :
        RenameOfNone(c, f, u, src, dest) =>
          /\ pc'["p1"] = "done"
          /\ result'["p1"].code = "UnknownWorkspace"
          /\ store' = store /\ volumes' = volumes ]_vars

\* C33 (what Rename does for a workspace that does not exist): the UPDATE
\* matches no row and is no error, so the invocation goes on to the zfs
\* rename with its transaction open and the rows unchanged in it; the store
\* stays as it was whether the zfs rename then fails (Panic) or not.
C33_StoreUnchanged ==
  [][ /\ \A c \in Callers, f \in DOMAIN filesystems, u \in Users, src \in Names,
            dest \in Names :
           RenameOfNone(c, f, u, src, dest) =>
             /\ pc'["p1"] = "rename_zfs"
             /\ view'["p1"] = store
             /\ store' = store /\ volumes' = volumes
      /\ (/\ pc["p1"] \in { "rename_zfs", "rename_commit" }
          /\ view["p1"] = store
          /\ (RenameZfs("p1") \/ RenameCommit("p1"))) =>
           /\ store' = store
           /\ pc'["p1"] = "done" => result'["p1"].code \in { "Panic", "Ok" } ]_vars

\* the zfs rename is about to be issued for a source name without a row
C33_Witness ==
  /\ pc["p1"] = "rename_zfs"
  /\ view["p1"] = store
  /\ Matching(workspaces, op["p1"].filesystem_name, op["p1"].user, op["p1"].name) = {}

\* every entry of `notes` references a row of `ws`
References(ws, notes) ==
  \A i \in DOMAIN notes : \E r \in ws : r.id = notes[i].workspace_id

\* C32 (referential integrity of the notification log): in every reachable
\* state every committed log entry references the id of a stored row, and so
\* does every entry inside the open transaction of a sweep; when the sweep
\* deletes a row, no entry of that row is left in its transaction; a row
\* that a Create commits, whether its id was used before or not, has exactly
\* one log entry, timestamped now.
C32_ReferentialIntegrity ==
  [][ /\ References(workspaces, notifications)
      /\ References(workspaces', notifications')
      /\ pc'["p1"] = "sweep_rows" => References(view'["p1"][1], view'["p1"][2])
      /\ (pc["p1"] = "sweep_rows" /\ pc'["p1"] = "sweep_rows" /\ SweepRow("p1")) =>
           \A r \in view["p1"][1] \ view'["p1"][1] :
             EntriesOf(view'["p1"][2], r.id) = << >>
      /\ \A c \in Callers, f \in DOMAIN filesystems, u \in Users, n \in Names,
            d \in Durations :
           (pc["p1"] = "idle" /\ Create("p1", c, f, u, n, d)
            /\ pc'["p1"] = "create_zfs") =>
             \A r \in workspaces' \ workspaces :
               EntriesOf(notifications', r.id)
                 = << [workspace_id |-> r.id, timestamp |-> now] >> ]_vars

\* the sweep has deleted, inside its transaction, a row that has two
\* committed log entries, and none of them is left in the transaction
C32_Witness ==
  /\ pc["p1"] = "sweep_rows"
  /\ \E r \in SweepDeleted :
       /\ Len(EntriesOf(notifications, r.id)) = 2
       /\ EntriesOf(view["p1"][2], r.id) = << >>

\* C34 (an Expire silences the reminder of its own instant): when an Expire,
\* normal or immediate, commits at instant now, the row's most recent log
\* entry is timestamped now, and the scheduler's decision for the row at
\* that instant is not to notify, whatever the offset list; and a sweep that
\* steps, at instant now, over an expired row whose most recent log entry is
\* timestamped now sends no reminder for it.
C34_Silenced ==
  [][ /\ \A c \in Callers, f \in DOMAIN filesystems, u \in Users, n \in Names,
            b \in BOOLEAN :
           (pc["p1"] = "idle" /\ Expire("p1", c, f, u, n, b)
            /\ pc'["p1"] = "expire_zfs") =>
             \A r \in RowsOf(workspaces', f, u, n) :
               /\ LastNotificationTime(notifications', r.id) = << now >>
               /\ \A offsets \in SchedOffsets :
                    ~NotifyNecessary(r.expiration_time, offsets,
                                     LastNotificationTime(notifications', r.id), now)
      /\ \A env \in NotifyEnv, ok \in BOOLEAN :
           (/\ pc["p1"] = "sweep_rows"
            /\ SweepPending("p1") # {}
            /\ SweepRowOf("p1").expiration_time <= now
            /\ LastNotificationTime(view["p1"][2], SweepRowOf("p1").id) = << now >>
            /\ SweepRowEnv("p1", env, ok)) =>
             ~Reminds(SweepRowOf("p1")) ]_vars

\* mail is configured and the sweep has stepped, on day 0, over the row of
\* a workspace that was expired on day 0; it has sent nothing
C34_Witness ==
  /\ pc["p1"] = "sweep_rows"
  /\ op["p1"].smtp
  /\ now = days(0)
  /\ mailed["p1"] = {}
  /\ \E r \in view["p1"][1] :
       /\ r.id <= cursor["p1"]
       /\ r.expiration_time <= now
       /\ LastNotificationTime(view["p1"][2], r.id) = << now >>

\* C35 as stated (no duplicate reminders across sweeps): once a sweep has
\* ended, however it ended, every reminder it sent is on record: for each
\* stored row it has mailed, the scheduler's decision on the committed log
\* at the same instant is not to notify, so that the next sweep does not
\* mail the owner again for the same threshold.
C35_AsStated ==
  (pc["p1"] = "done" /\ result["p1"].cmd = "maintain") =>
    \A m \in result["p1"].mailed : \A r \in workspaces :
      r.id = m.id =>
        ~NotifyNecessary(r.expiration_time,
                         filesystems[r.filesystem].expiry_notifications_on_days,
                         LastNotificationTime(notifications, r.id), now)

\* C36 as stated (no row is left behind a destroyed volume): every stored
\* row starts with its volume and only the sweep's destroy call removes
\* volumes here; once a sweep has ended, whether it completed or was aborted
\* part-way, no stored row is without its volume, that is, the store holds
\* no row of a workspace whose volume the sweep has destroyed.
C36_AsStated ==
  (pc["p1"] = "done" /\ result["p1"].cmd = "maintain") =>
    \A r \in workspaces : volumes[VolumeOf(r)] # "absent"


\* C37 as stated (a sweep racing an Extend): whenever a step of the sweep
\* destroys a volume, every committed row of that volume has expiration +
\* retention window strictly before now; a workspace whose Extend was
\* committed before the destroy call keeps its volume.
C37_AsStated ==
  [][ (pc["p1"] = "sweep_rows" /\ SweepRow("p1")) =>
        \A v \in Volumes :
          (volumes[v] # "absent" /\ volumes'[v] = "absent") =>
            \A r \in RowsOnVolume(workspaces, v) : BeyondBoundary(r, now) ]_vars

\* C37 relative to the sweep's snapshot: whenever a step of the sweep
\* destroys a volume, the row of that volume as the sweep's transaction
\* read it has expiration + retention window strictly before now.
C37_SnapshotOnly ==
  [][ (pc["p1"] = "sweep_rows" /\ SweepRow("p1")) =>
        \A v \in Volumes :
          (volumes[v] # "absent" /\ volumes'[v] = "absent") =>
            /\ RowsOnVolume(view["p1"][1], v) # {}
            /\ \A r \in RowsOnVolume(view["p1"][1], v) : BeyondBoundary(r, now) ]_vars

\* the sweep has destroyed the volume of a workspace that the store holds
\* as extended beyond now, and has ended with an error
C37_Witness ==
  /\ pc["p1"] = "done"
  /\ result["p1"].cmd = "maintain"
  /\ result["p1"].code = "Err"
  /\ pc["p2"] = "extend_zfs"
  /\ \E r \in workspaces :
       /\ VolumeOf(r) = Volume(op["p2"])
       /\ r.expiration_time > now
       /\ volumes[VolumeOf(r)] = "absent"

\* C38 as stated (the read-only flag after a concurrent Extend and Expire):
\* on day 0, where a workspace is expired only by an Expire, an Extend has
\* committed and an Expire running beside it has since made the volume
\* read-only and ended; when the Extend's zfs call then succeeds and ends
\* the invocation, both are complete and the volume is read-only if and
\* only if the stored expiration is not after now.
C38_AsStated ==
  [][ (/\ now = days(0)
       /\ pc["p2"] = "idle"
       /\ pc["p1"] = "extend_zfs"
       /\ volumes[Volume(op["p1"])] = "ro"
       /\ ExtendZfs("p1")
       /\ result'["p1"].code = "Ok") =>
        \A r \in workspaces' :
          VolumeOf(r) = Volume(op["p1"]) =>
            (volumes'[VolumeOf(r)] = "ro" <=> r.expiration_time <= now) ]_vars


\* C39 as stated (the days until permanent deletion are never negative):
\* whenever the sweep sends, at instant now, the reminder that reports the
\* days until permanent deletion, retention window - (now - expiration) is
\* >= 0 and so are the days reported: the row is not past its retention
\* boundary.
C39_AsStated ==
  [][ \A env \in NotifyEnv, ok \in BOOLEAN :
        (/\ pc["p1"] = "sweep_rows"
         /\ SweepRowEnv("p1", env, ok)
         /\ Reminds(SweepRowOf("p1"))) =>
          LET row == SweepRowOf("p1")
              retention == filesystems[row.filesystem].expired_retention
          IN \A s \in Reported(row) :
               s.kind = "delete" =>
                 /\ retention - (now - row.expiration_time) >= 0
                 /\ s.days >= 0
                 /\ ~BeyondBoundary(row, now) ]_vars

\* C40 (the duration ceiling as an invariant): with every Create and Extend
\* made by unprivileged callers, a row that a step creates, or whose
\* expiration a step raises, is the row of a Create or Extend committing in
\* that step at instant now, and its expiration is then <= now + maximum
\* allowed duration; every other step (Expire, Rename, the sweep, the clock,
\* the zfs calls) leaves the expiration of every row as it was or lower; so
\* in every state expiration <= t + maximum allowed duration for the
\* instant t of the latest Create or Extend on the row, and in particular
\* expiration <= now + maximum allowed duration.
C40_Ceiling ==
  [][ /\ \A r2 \in workspaces' :
           \/ \E r \in workspaces :
                r.id = r2.id /\ r2.expiration_time <= r.expiration_time
           \/ /\ pc["p1"] = "idle"
              /\ pc'["p1"] \in { "create_zfs", "extend_zfs" }
              /\ VolumeOf(r2) = Volume(op'["p1"])
              /\ r2.expiration_time
                   <= now + filesystems[r2.filesystem].max_duration
      /\ \A r \in workspaces :
           r.expiration_time <= now + filesystems[r.filesystem].max_duration
    ]_vars

\* on day 1 an Extend by the owner has raised the expiration of a workspace
\* created on day 0 to the ceiling now + maximum allowed duration
C40_Witness ==
  /\ pc["p1"] = "extend_zfs"
  /\ now = days(1)
  /\ \E r \in workspaces :
       /\ VolumeOf(r) = Volume(op["p1"])
       /\ r.expiration_time = now + filesystems[r.filesystem].max_duration
       /\ \E i \in DOMAIN notifications :
            notifications[i] = [workspace_id |-> r.id, timestamp |-> days(0)]
====
